---------------------------- MODULE Spec2Model ----------------------------
(***************************************************************************)
(* Title-block and revision-history extraction of the drawing-PDF          *)
(* extractor (pdf_extractor_production_final.py,                           *)
(* pdf_extractor_truly_dynamic.py, pdf_extractor_production_ready.py,      *)
(* pdf_extractor_testdata.py).                                             *)
(*                                                                         *)
(* A page is the list `lines` the extractor builds from the PDF text: each *)
(* line is stripped and non-empty.  A line is modelled as the sequence of  *)
(* its whitespace-separated tokens; the line's text is the tokens joined   *)
(* by one space.  Every regular expression of the source is translated to  *)
(* a predicate over token sequences; the sets below classify the tokens of *)
(* the vocabulary under the character classes the expressions use.         *)
(***************************************************************************)
EXTENDS Naturals, Integers, Sequences, FiniteSets, TLC

VARIABLES
    pc,          \* position of the driver of the specification in force
    lines,       \* extract_pdf_info: the page's lines (input)
    fault,       \* extract_pdf_info: the step that raises, or "none" (input)
    revisions,   \* extract_pdf_info: the local `revisions`
    result,      \* extract_pdf_info: the returned record
    entries,     \* find_latest_revision_enhanced: its argument
    latest,      \* find_latest_revision_enhanced: its return value
    pdf_files,   \* process_multiple_pdfs: the globbed documents
    results,     \* process_multiple_pdfs: the local `results`
    arg,         \* the argument of the function a specification applies
    ret          \* the value that function returned

vars == <<pc, lines, fault, revisions, result, entries, latest, pdf_files, results,
          arg, ret>>

-----------------------------------------------------------------------------
(* Bounds *)

\* longest page, in lines
MaxLines == 3
\* longest revision history handed to the resolver
MaxEntries == 3
\* most documents in a directory
MaxBatch == 3

-----------------------------------------------------------------------------
(* The vocabulary: the lines a page is drawn from *)

Row0 == <<"T0", "26/10/2023", "ISSUED", "FOR", "TENDER", "AK">>
Row1 == <<"T1", "07/11/2024", "ISSUED", "FOR", "TENDER", "NQ">>
RowN == <<"N0", "26/10/2023", "ISSUED", "FOR", "CONSTRUCTION">>
RowNum == <<"07", "07/11/2024", "100%", "Design", "Development">>
RowGlued == <<"EB0707/11/2024", "100%", "Design", "Development">>

Catalogue ==
    { Row0, Row1, Row0 \o Row1, RowN, RowNum, RowGlued,
      <<"1:50", "T1">>,
      <<"1:50", "T2">>,
      <<"27", "Laheq", "Island", "L02">>,
      <<"07">>,
      <<"Drawing", "Number", "Revision">>,
      <<"Drawing", "Title">>,
      <<"Construction", "Procurement">>,
      <<"L02-R02DXX-RSG-00-ZZ-SKT-LS-12801">>,
      <<"Pool", "Enlargement", "Plan">> }

Pages == UNION { [1..n -> Catalogue] : n \in 0..MaxLines }

\* no token: what a position outside the line holds
NoTok == ""

TokAt(l, i) == IF i >= 1 /\ i <= Len(l) THEN l[i] ELSE NoTok

\* number of characters of each token of the vocabulary
TokLen(t) ==
    CASE t \in {"1", "T"} -> 1
      [] t \in {"T0", "T1", "T2", "N0", "07", "27", "AK", "NQ", "By", "12",
               "TA"} -> 2
      [] t \in {"FOR", "L02", "Rev", "for", "and", "---"} -> 3
      [] t \in {"1:50", "100%", "Pool", "Plan", "Date", "PAGE",
               "Wall", "POOL", "PLAN"} -> 4
      [] t \in {"Laheq", "Title", "Drawn", "Issue"} -> 5
      [] t \in {"ISSUED", "TENDER", "Island", "Design", "Number", "Reason",
               "Mockup"} -> 6
      [] t \in {"Drawing", "updated"} -> 7
      [] t \in {"Revision", "31/07/25", "approved"} -> 8
      [] t \in {"26/10/2023", "07/11/2024"} -> 10
      [] t \in {"Development", "Enlargement", "Procurement",
               "ENLARGEMENT"} -> 11
      [] t \in {"CONSTRUCTION", "Construction", "Coordination"} -> 12
      [] t \in {"EB0707/11/2024"} -> 14
      [] t \in {"L02-R02DXX-RSG-00-ZZ-SKT-LS-12801"} -> 33
      [] OTHER -> 0

RECURSIVE SumLen(_)
SumLen(ts) == IF ts = <<>> THEN 0 ELSE TokLen(Head(ts)) + SumLen(Tail(ts))

\* len() of the text of a token sequence joined by single spaces
StrLen(ts) == IF ts = <<>> THEN 0 ELSE SumLen(ts) + Len(ts) - 1

RECURSIVE ConcatAll(_)
ConcatAll(ss) == IF ss = <<>> THEN <<>> ELSE Head(ss) \o ConcatAll(Tail(ss))

\* lines[a:b] positions, a and b 0-based as range(a, b)
Range0(a, b) == IF b > a THEN [k \in 1..(b - a) |-> a + k - 1] ELSE <<>>

Max(a, b) == IF a >= b THEN a ELSE b
Min(a, b) == IF a <= b THEN a ELSE b

-----------------------------------------------------------------------------
(* Token classes of the regular expressions *)

\* ^[TN]\d+$
TNTok == {"T0", "T1", "T2", "N0", "N1"}
\* [TN]\d+ under re.IGNORECASE, the whole token
TNTokCI == {"T0", "T1", "T2", "N0"}
\* a token that begins with [TN]\d+
TNPrefixTok == {"T0", "T1", "T2", "N0"}
\* ^\d{2}$
Num2Tok == {"07", "27"}
\* \d{1,2}/\d{1,2}/\d{2,4}, the whole token
DateTok == {"26/10/2023", "07/11/2024"}
\* \d{1,2}/\d{1,2}/\d{4}, the whole token
Date4Tok == {"26/10/2023", "07/11/2024"}
\* [A-Z]+ under re.IGNORECASE, the whole token
AlphaTok == {"ISSUED", "FOR", "TENDER", "AK", "NQ", "CONSTRUCTION", "Laheq",
             "Island", "Design", "Development", "Drawing", "Number",
             "Revision", "Pool", "Enlargement", "Plan", "Title",
             "Construction", "Procurement"}
\* [A-Z]{1,3} under re.IGNORECASE, the whole token
Alpha3Tok == {"FOR", "AK", "NQ"}


-----------------------------------------------------------------------------
(* extract_revisions_comprehensive *)

NoMatch == [ok |-> FALSE]

is_valid_revision_format(rev) == rev \in TNTok

is_valid_numeric_revision_format(rev) == rev \in Num2Tok

\* ([TN]\d+)\s+(\d{1,2}/\d{1,2}/\d{2,4})\s+ at token s
RevHead(l, s) == TokAt(l, s) \in TNTokCI /\ TokAt(l, s + 1) \in DateTok

\* The lookahead that closes patterns 1, 2 and 5 of strategy 1, tried with
\* the next unread token at position pos:
\*   1: (?=\s+[TN]\d+\s+\d{1,2}/\d{1,2}/\d{2,4}|$)
\*   2: $
\*   5: (?=\s+[TN]\d+|\s*$)
Lookahead(p, l, pos) ==
    CASE p = 1 -> \/ pos = Len(l) + 1
                  \/ TokAt(l, pos) \in TNTokCI /\ TokAt(l, pos + 1) \in DateTok
      [] p = 2 -> pos = Len(l) + 1
      [] OTHER -> pos = Len(l) + 1 \/ TokAt(l, pos) \in TNPrefixTok

\* [A-Z\s]+?(?:\s+[A-Z]{1,3})?<lookahead> from token q: the lazy quantifier
\* takes the fewest words k >= 1 after which the optional checker group and
\* the lookahead, or the lookahead alone, succeed.  rend is the last token
\* of the reason and mend the last token of the match.
RECURSIVE LazyReason(_, _, _, _)
LazyReason(p, l, q, k) ==
    IF TokAt(l, q + k - 1) \notin AlphaTok THEN NoMatch
    ELSE IF TokAt(l, q + k) \in Alpha3Tok /\ Lookahead(p, l, q + k + 1)
         THEN [ok |-> TRUE, rend |-> q + k - 1, mend |-> q + k]
    ELSE IF Lookahead(p, l, q + k)
         THEN [ok |-> TRUE, rend |-> q + k - 1, mend |-> q + k - 1]
    ELSE LazyReason(p, l, q, k + 1)

\* One match of pattern p of strategy 1 that starts at token s
MatchAt(p, l, s) ==
    IF ~RevHead(l, s) THEN NoMatch
    ELSE IF p \in {1, 2, 5} THEN
        \* (ISSUED?\s+FOR\s+[A-Z\s]+?) in 1 and 2, (ISSUED\s+FOR\s+[A-Z\s]+?) in 5
        IF /\ TokAt(l, s + 2) \in (IF p = 5 THEN {"ISSUED"} ELSE {"ISSUE", "ISSUED"})
           /\ TokAt(l, s + 3) = "FOR"
        THEN LET r == LazyReason(p, l, s + 4, 1) IN
             IF r.ok
             THEN [ok |-> TRUE, rev |-> l[s], date |-> l[s + 1],
                   reason |-> SubSeq(l, s + 2, r.rend), mend |-> r.mend]
             ELSE NoMatch
        ELSE NoMatch
    ELSE IF p = 3 THEN
        \* (Issued\s+For\s+Construction)
        IF /\ TokAt(l, s + 2) = "ISSUED" /\ TokAt(l, s + 3) = "FOR"
           /\ TokAt(l, s + 4) = "CONSTRUCTION"
        THEN [ok |-> TRUE, rev |-> l[s], date |-> l[s + 1],
              reason |-> SubSeq(l, s + 2, s + 4), mend |-> s + 4]
        ELSE NoMatch
    ELSE
        \* (Issue\s+for\s+Tender)
        IF /\ TokAt(l, s + 2) = "ISSUE" /\ TokAt(l, s + 3) = "FOR"
           /\ TokAt(l, s + 4) = "TENDER"
        THEN [ok |-> TRUE, rev |-> l[s], date |-> l[s + 1],
              reason |-> SubSeq(l, s + 2, s + 4), mend |-> s + 4]
        ELSE NoMatch

\* re.finditer: the non-overlapping matches of pattern p in line l, from
\* token s on, as candidate entries of line index i
RECURSIVE FindIter(_, _, _, _)
FindIter(p, l, s, i) ==
    IF s > Len(l) THEN <<>>
    ELSE LET m == MatchAt(p, l, s) IN
         IF m.ok
         THEN <<[revision |-> m.rev, date |-> m.date, reason |-> m.reason,
                 line_index |-> i, valid |-> is_valid_revision_format(m.rev),
                 minlen |-> 3]>>
              \o FindIter(p, l, m.mend + 1, i)
         ELSE FindIter(p, l, s + 1, i)

\* Strategy 1: for each line, for each of the five patterns, every match
Strategy1(ls) ==
    ConcatAll([i \in 1..Len(ls) |->
        ConcatAll([p \in 1..5 |-> FindIter(p, ls[i], 1, i - 1)])])


\* The numeric patterns of strategy 2 are searched anywhere in the line, so
\* they also match inside a token.
\* [A-Z]{2}\d{2}\d{1,2}/\d{1,2}/\d{4} ending the token (pattern 1)
GluedTok == {"EB0707/11/2024"}
\* a token that begins with [A-Z]{2}\d{2}
AZ2Num2PrefixTok == {"EB0707/11/2024"}
\* (\d{2}) of a token that ends with \d{2}\d{1,2}/\d{1,2}/\d{4}
GluedRev(t) == IF t = "EB0707/11/2024" THEN "07" ELSE NoTok
\* the first \d{1,2}/\d{1,2}/\d{2,4} a token contains
DateIn(t) ==
    CASE t \in DateTok -> t
      [] t = "EB0707/11/2024" -> "07/11/2024"
      [] OTHER -> NoTok
\* the two digits a token ends with
TailNum2(t) ==
    CASE t \in Num2Tok -> t
      [] t = "L02" -> "02"
      [] t = "1:50" -> "50"
      [] t = "26/10/2023" -> "23"
      [] t = "07/11/2024" -> "24"
      [] t = "EB0707/11/2024" -> "24"
      [] t = "L02-R02DXX-RSG-00-ZZ-SKT-LS-12801" -> "01"
      [] OTHER -> NoTok

\* The lookahead of the numeric patterns, with the next unread token at pos:
\*   1: (?=\s+[A-Z]{2}\d{2}|\s*$)
\*   2: (?=\s+\d{2}\s*\d{1,2}/\d{1,2}/\d{4}|\s*$)
NumLookahead(p, l, pos) ==
    IF p = 1
    THEN pos = Len(l) + 1 \/ TokAt(l, pos) \in AZ2Num2PrefixTok
    ELSE \/ pos = Len(l) + 1
         \/ TokAt(l, pos) \in Num2Tok /\ TokAt(l, pos + 1) \in Date4Tok

\* \s+(.+?)<lookahead>: the fewest tokens k >= 1 from q
RECURSIVE LazyAny(_, _, _, _)
LazyAny(p, l, q, k) ==
    IF q + k - 1 > Len(l) THEN NoMatch
    ELSE IF NumLookahead(p, l, q + k) THEN [ok |-> TRUE, rend |-> q + k - 1]
    ELSE LazyAny(p, l, q, k + 1)

\* One match of numeric pattern p that starts in token s:
\*   1: ([A-Z]{2})(\d{2})(\d{1,2}/\d{1,2}/\d{4})\s+(.+?)
\*   2: (\d{2})\s*(\d{1,2}/\d{1,2}/\d{4})\s+(.+?)
\* Pattern 2 finds its two digits at the end of token s, followed either by
\* the date in the same token or, after whitespace, by a date token.
NumMatchAt(p, l, s) ==
    LET t == TokAt(l, s)
        glued == t \in GluedTok
        spaced == p = 2 /\ TailNum2(t) # NoTok /\ TokAt(l, s + 1) \in Date4Tok
        q == IF glued THEN s + 1 ELSE s + 2
        r == LazyAny(p, l, q, 1)
    IN  IF (glued \/ spaced) /\ r.ok
        THEN [ok |-> TRUE,
              rev |-> IF glued THEN GluedRev(t) ELSE TailNum2(t),
              date |-> IF glued THEN DateIn(t) ELSE l[s + 1],
              reason |-> SubSeq(l, q, r.rend), mend |-> r.rend]
        ELSE NoMatch

RECURSIVE NumFindIter(_, _, _, _)
NumFindIter(p, l, s, i) ==
    IF s > Len(l) THEN <<>>
    ELSE LET m == NumMatchAt(p, l, s) IN
         IF m.ok
         THEN <<[revision |-> m.rev, date |-> m.date, reason |-> m.reason,
                 line_index |-> i,
                 valid |-> is_valid_numeric_revision_format(m.rev),
                 minlen |-> 3]>>
              \o NumFindIter(p, l, m.mend + 1, i)
         ELSE NumFindIter(p, l, s + 1, i)

\* Strategy 2: for each line, both numeric patterns, every match
Strategy2(ls) ==
    ConcatAll([i \in 1..Len(ls) |->
        ConcatAll([p \in 1..2 |-> NumFindIter(p, ls[i], 1, i - 1)])])

\* any(header in line.upper() for header in ['REV', 'DATE', 'REASON FOR
\* ISSUE', 'REVISION']): the tokens whose upper case contains REV or DATE
HeaderTok == {"Revision"}

IsHeaderLine(l) == \E k \in 1..Len(l) : l[k] \in HeaderTok

\* ^([TN]\d+)\s+(\d{1,2}/\d{1,2}/\d{2,4})\s+(.+)$ and
\* ^(\d{2})\s+(\d{1,2}/\d{1,2}/\d{2,4})\s+(.+)$ on candidate line j (0-based)
TableRow(ls, j) ==
    LET c == ls[j + 1]
        row(isnum) ==
            [revision |-> c[1], date |-> c[2], reason |-> SubSeq(c, 3, Len(c)),
             line_index |-> j,
             valid |-> IF isnum THEN is_valid_numeric_revision_format(c[1])
                       ELSE is_valid_revision_format(c[1]),
             minlen |-> 3]
    IN  IF Len(c) >= 3 /\ c[2] \in DateTok
        THEN (IF c[1] \in TNTok THEN <<row(FALSE)>> ELSE <<>>)
             \o (IF c[1] \in Num2Tok THEN <<row(TRUE)>> ELSE <<>>)
        ELSE <<>>

\* Strategy 3: the (up to nine) lines after each header line
Strategy3(ls) ==
    ConcatAll([i \in 1..Len(ls) |->
        IF IsHeaderLine(ls[i])
        THEN LET js == Range0(i, Min(i - 1 + 10, Len(ls))) IN
             ConcatAll([k \in 1..Len(js) |-> TableRow(ls, js[k])])
        ELSE <<>>])

\* The first element x of a sequence, from position k on, with f(x) # NoTok,
\* as re.search finds the leftmost match in a line and a `for` loop with an
\* early return the first line that matches
RECURSIVE FirstHit(_, _, _)
FirstHit(f(_), l, k) ==
    IF k > Len(l) THEN NoTok
    ELSE IF f(l[k]) # NoTok THEN f(l[k])
    ELSE FirstHit(f, l, k + 1)

\* \b([TN]\d+)\b inside a token
TNIn(t) == IF t \in TNTok THEN t ELSE NoTok

\* Strategy 4: a date on line i paired with the first T/N code of each line
\* within two lines of it
Strategy4(ls) ==
    ConcatAll([i \in 1..Len(ls) |->
        LET date == FirstHit(DateIn, ls[i], 1) IN
        IF date # NoTok
        THEN LET js == Range0(Max(0, i - 1 - 2), Min(Len(ls), i - 1 + 3)) IN
             ConcatAll([k \in 1..Len(js) |->
                LET rev == FirstHit(TNIn, ls[js[k] + 1], 1) IN
                IF rev # NoTok
                THEN <<[revision |-> rev, date |-> date,
                        reason |-> IF rev \in {"N0"}
                                   THEN <<"Issued", "For", "Construction">>
                                   ELSE <<"Issued", "For", "Tender">>,
                        line_index |-> i - 1,
                        valid |-> is_valid_revision_format(rev),
                        minlen |-> -1]>>
                ELSE <<>>])
        ELSE <<>>])

\* The duplicate check dropped
NotProcessed_Off(revs, rev, date) == TRUE

\* entry_key not in processed: processed holds f"{rev}_{date}" of every
\* entry appended so far
NotProcessed(revs, rev, date) ==
    \A k \in 1..Len(revs) : ~(revs[k].revision = rev /\ revs[k].date = date)

\* The guarded append every strategy ends with
AddEntry(revs, c) ==
    IF c.valid /\ NotProcessed(revs, c.revision, c.date)
              /\ (c.minlen < 0 \/ StrLen(c.reason) > c.minlen)
    THEN Append(revs, [revision |-> c.revision, date |-> c.date,
                       reason |-> c.reason, line_index |-> c.line_index])
    ELSE revs

RECURSIVE AddAll(_, _)
AddAll(revs, cs) ==
    IF cs = <<>> THEN revs ELSE AddAll(AddEntry(revs, Head(cs)), Tail(cs))

extract_revisions_comprehensive(ls) ==
    AddAll(<<>>, Strategy1(ls) \o Strategy2(ls) \o Strategy3(ls) \o Strategy4(ls))


-----------------------------------------------------------------------------
(* extract_current_revision_fixed *)

\* a token that ends with 1:\d+
ScaleTok == {"1:50"}
\* a token that begins with L\d{2}
LNumPrefixTok == {"L02", "L02-R02DXX-RSG-00-ZZ-SKT-LS-12801"}
\* a token that contains L\d{2}-[A-Z0-9\-]+
DrawingNoTok == {"L02-R02DXX-RSG-00-ZZ-SKT-LS-12801"}

\* `first second` is a substring of the line
HasPair(l, first, second) ==
    \E k \in 1..Len(l) : l[k] = first /\ TokAt(l, k + 1) = second

\* the last element x of a sequence with f(x) # NoTok
RECURSIVE LastHit(_, _, _)
LastHit(f(_), l, k) ==
    IF k < 1 THEN NoTok
    ELSE IF f(l[k]) # NoTok THEN f(l[k])
    ELSE LastHit(f, l, k - 1)

\* Strategy 1: 1:\d+\s+([TN]\d+)
RECURSIVE ScaleRev(_, _)
ScaleRev(l, k) ==
    IF k > Len(l) THEN NoTok
    ELSE IF l[k] \in ScaleTok /\ TokAt(l, k + 1) \in TNPrefixTok THEN l[k + 1]
    ELSE ScaleRev(l, k + 1)

CurStrategy1(l) == ScaleRev(l, 1)

\* Strategy 2: ^([TN]\d+)\s*Laheq\s+Island
CurStrategy2(l) ==
    IF TokAt(l, 1) \in TNTok /\ TokAt(l, 2) = "Laheq" /\ TokAt(l, 3) = "Island"
    THEN l[1] ELSE NoTok

\* Strategy 3: ^(\d{2})\s*Laheq\s+Island\s+L\d{2}
CurStrategy3(l) ==
    IF /\ TokAt(l, 1) \in Num2Tok /\ TokAt(l, 2) = "Laheq"
       /\ TokAt(l, 3) = "Island" /\ TokAt(l, 4) \in LNumPrefixTok
    THEN l[1] ELSE NoTok

\* Strategy 4: ^([TN]\d+)\s+Laheq\s+Island\s+L\d{2}
CurStrategy4(l) ==
    IF /\ TokAt(l, 1) \in TNTok /\ TokAt(l, 2) = "Laheq"
       /\ TokAt(l, 3) = "Island" /\ TokAt(l, 4) \in LNumPrefixTok
    THEN l[1] ELSE NoTok

\* Strategy 5: the last \b([TN]\d+)\b of a line that holds a drawing number
CurStrategy5(l) ==
    IF \E k \in 1..Len(l) : l[k] \in DrawingNoTok
    THEN LastHit(TNIn, l, Len(l)) ELSE NoTok

\* any(indicator in line for indicator in ['Drawing Number', 'Project No',
\* 'Scale at ISO', 'Issue Date'])
IsTitleBlockLine(l) == HasPair(l, "Drawing", "Number")

\* Strategy 6, one candidate line: ^([TN]\d+)$, ^(\d{2})$, ^([TN]\d+)\s
Standalone(c) ==
    IF Len(c) = 1 /\ c[1] \in TNTok THEN c[1]
    ELSE IF Len(c) = 1 /\ c[1] \in Num2Tok THEN c[1]
    ELSE IF Len(c) >= 2 /\ c[1] \in TNTok THEN c[1]
    ELSE NoTok

\* Strategy 6: lines i-5 .. i+9 around each title-block line i
CurStrategy6(ls) ==
    LET around(i) ==
            IF IsTitleBlockLine(ls[i])
            THEN FirstHit(Standalone,
                          SubSeq(ls, Max(0, i - 1 - 5) + 1, Min(Len(ls), i - 1 + 10)), 1)
            ELSE NoTok
        hits == [i \in 1..Len(ls) |-> around(i)]
    IN  FirstHit(LAMBDA x : x, hits, 1)

\* upper case of a token
Upper(t) ==
    CASE t = "Construction" -> "CONSTRUCTION"
      [] t = "Procurement" -> "PROCUREMENT"
      [] t = "Design" -> "DESIGN"
      [] t = "Development" -> "DEVELOPMENT"
      [] t = "Drawing" -> "DRAWING"
      [] t = "Number" -> "NUMBER"
      [] t = "Revision" -> "REVISION"
      [] t = "Title" -> "TITLE"
      [] t = "Laheq" -> "LAHEQ"
      [] t = "Island" -> "ISLAND"
      [] t = "Pool" -> "POOL"
      [] t = "Enlargement" -> "ENLARGEMENT"
      [] t = "Plan" -> "PLAN"
      [] t = "Concept" -> "CONCEPT"
      [] t = "Schematic" -> "SCHEMATIC"
      [] t = "Documents" -> "DOCUMENTS"
      [] t = "construction" -> "CONSTRUCTION"
      [] t = "procurement" -> "PROCUREMENT"
      [] OTHER -> t

UpperLine(l) == [k \in 1..Len(l) |-> Upper(l[k])]

\* lines.index(line): the 0-based index of the first line equal to l
RECURSIVE IndexOf(_, _, _)
IndexOf(ls, l, k) == IF ls[k] = l THEN k - 1 ELSE IndexOf(ls, l, k + 1)

\* Strategy 7: the first \b([TN]\d+)\b in the three lines before a line that
\* holds CONSTRUCTION PROCUREMENT
CurStrategy7(ls) ==
    LET before(i) ==
            IF HasPair(UpperLine(ls[i]), "CONSTRUCTION", "PROCUREMENT")
            THEN LET idx == IndexOf(ls, ls[i], 1)
                     js == Range0(Max(0, idx - 3), idx)
                 IN  FirstHit(LAMBDA x : x,
                              [k \in 1..Len(js) |-> FirstHit(TNIn, ls[js[k] + 1], 1)], 1)
            ELSE NoTok
    IN  FirstHit(LAMBDA x : x, [i \in 1..Len(ls) |-> before(i)], 1)

\* Strategy 8: the first \b([TN]\d+)\b of a line that holds a scale 1:\d+
CurStrategy8(l) ==
    IF \E k \in 1..Len(l) : l[k] \in ScaleTok
    THEN FirstHit(TNIn, l, 1) ELSE NoTok

\* Strategy 9: (\d{2})\s*$ of a line that holds 'Design Development' and a
\* date \d{2}/\d{2}/\d{4}
CurStrategy9(l) ==
    IF /\ HasPair(l, "Design", "Development")
       /\ \E k \in 1..Len(l) : DateIn(l[k]) \in Date4Tok
    THEN TailNum2(l[Len(l)]) ELSE NoTok

\* The nine strategies in order; each returns at its first hit.  The empty
\* string is NoTok.
extract_current_revision_fixed(ls) ==
    LET tries == << FirstHit(CurStrategy1, ls, 1),
                    FirstHit(CurStrategy2, ls, 1),
                    FirstHit(CurStrategy3, ls, 1),
                    FirstHit(CurStrategy4, ls, 1),
                    FirstHit(CurStrategy5, ls, 1),
                    CurStrategy6(ls),
                    CurStrategy7(ls),
                    FirstHit(CurStrategy8, ls, 1),
                    FirstHit(CurStrategy9, ls, 1) >>
    IN  FirstHit(LAMBDA x : x, tries, 1)


-----------------------------------------------------------------------------
(* extract_title_fixed *)

\* ^[0-9\.\s\-]+$ over a whole line: every token is digits, dots and dashes
DigitsTok == {"07", "27"}
\* ^L\d{2}- at the start of a line
LDashPrefixTok == {"L02-R02DXX-RSG-00-ZZ-SKT-LS-12801"}
\* [A-Z]{1,3}, case-sensitive, the whole token
Upper3Tok == {"FOR", "AK", "NQ"}
\* [A-Z0-9\-\/]+, case-sensitive, the whole token
UpperNumTok == {"T0", "T1", "T2", "N0", "07", "27", "26/10/2023", "07/11/2024",
                "ISSUED", "FOR", "TENDER", "AK", "NQ", "CONSTRUCTION", "L02",
                "EB0707/11/2024", "L02-R02DXX-RSG-00-ZZ-SKT-LS-12801"}
\* a token that contains one of 'Mockup', 'Mock-up', 'Pool', 'Grading', 'Main'
StarterTok == {"Pool"}
\* a token that contains one of 'F+P', 'L01-', 'L02-', 'L04-'
StopTok == {"L02-R02DXX-RSG-00-ZZ-SKT-LS-12801"}
\* a token that begins with [0-9]{2}/[0-9]{2}/[0-9]{2,4}
DatePrefixTok == {"26/10/2023", "07/11/2024"}

\* Strategy 1, the section boundaries: of 'Model File Reference', 'Drawn
\* By', 'Project No', 'Drawing Number', 'Checked By', 'Approved By', 'First
\* Issue Date' and 'Scale at ISO' the vocabulary can spell 'Drawing Number'
\* and 'Drawn By'
IsBoundaryLine(l) == HasPair(l, "Drawing", "Number") \/ HasPair(l, "Drawn", "By")

\* Strategy 1, the test a line passes to become a title part (no token of
\* the vocabulary holds one of the excluded company strings)
IsTitlePart(l) ==
    /\ StrLen(l) > 3
    /\ StrLen(l) < 100
    /\ ~(\A k \in 1..Len(l) : l[k] \in DigitsTok)
    /\ l[1] \notin LDashPrefixTok
    /\ ~(Len(l) = 2 /\ l[1] \in Upper3Tok /\ l[2] \in Upper3Tok)

\* Strategy 1, the while loop from line j (0-based) to before line stop
RECURSIVE TitleParts(_, _, _)
TitleParts(ls, j, stop) ==
    IF ~(j < Len(ls) /\ j < stop) THEN <<>>
    ELSE IF IsBoundaryLine(ls[j + 1]) THEN <<>>
    ELSE (IF IsTitlePart(ls[j + 1]) THEN ls[j + 1] ELSE <<>>)
         \o TitleParts(ls, j + 1, stop)

\* Strategy 1: the title parts after the first 'Drawing Title' line that
\* has any
RECURSIVE TitleStrategy1(_, _)
TitleStrategy1(ls, i) ==
    IF i > Len(ls) THEN <<>>
    ELSE IF HasPair(ls[i], "Drawing", "Title") /\ TitleParts(ls, i, i - 1 + 15) # <<>>
         THEN TitleParts(ls, i, i - 1 + 15)
    ELSE TitleStrategy1(ls, i + 1)

\* Strategy 2: of the seven known titles (searched with re.IGNORECASE) the
\* vocabulary can spell (Pool\s+Enlargement\s+Plan); strategy 2a needs the
\* words 'Technical and Project Information'
RECURSIVE KnownTitle(_, _)
KnownTitle(l, k) ==
    IF k + 2 > Len(l) THEN <<>>
    ELSE IF /\ Upper(l[k]) = "POOL" /\ Upper(l[k + 1]) = "ENLARGEMENT"
            /\ Upper(l[k + 2]) = "PLAN"
         THEN SubSeq(l, k, k + 2)
    ELSE KnownTitle(l, k + 1)

RECURSIVE TitleStrategy2(_, _)
TitleStrategy2(ls, i) ==
    IF i > Len(ls) THEN <<>>
    ELSE IF KnownTitle(ls[i], 1) # <<>> THEN KnownTitle(ls[i], 1)
    ELSE TitleStrategy2(ls, i + 1)

\* Strategy 3, the lines collected after a starter line: from line j
\* (0-based) to before line stop
RECURSIVE StarterParts(_, _, _)
StarterParts(ls, j, stop) ==
    IF ~(j < stop) THEN <<>>
    ELSE LET c == ls[j + 1] IN
         IF (\E k \in 1..Len(c) : c[k] \in StopTok) \/ c[1] \in DatePrefixTok
         THEN <<>>
         ELSE (IF /\ StrLen(c) > 3 /\ StrLen(c) < 80
                  /\ ~(\A k \in 1..Len(c) : c[k] \in UpperNumTok)
               THEN <<c>> ELSE <<>>)
              \o StarterParts(ls, j + 1, stop)

RECURSIVE TitleStrategy3(_, _)
TitleStrategy3(ls, i) ==
    IF i > Len(ls) THEN <<>>
    ELSE LET parts == StarterParts(ls, i, Min(i - 1 + 6, Len(ls))) IN
         IF (\E k \in 1..Len(ls[i]) : ls[i][k] \in StarterTok) /\ Len(parts) >= 1
         THEN ls[i] \o ConcatAll(parts)
         ELSE TitleStrategy3(ls, i + 1)

\* The title as its sequence of words; the empty title is <<>>
extract_title_fixed(ls) ==
    IF TitleStrategy1(ls, 1) # <<>> THEN TitleStrategy1(ls, 1)
    ELSE IF TitleStrategy2(ls, 1) # <<>> THEN TitleStrategy2(ls, 1)
    ELSE TitleStrategy3(ls, 1)

-----------------------------------------------------------------------------
(* extract_drawing_number_fixed *)

\* (L\d{2}-[A-Z0-9\-]+) in a token
DrawingNoIn(t) == IF t \in DrawingNoTok THEN t ELSE NoTok

\* the first match of a line, kept only if longer than min characters
LongDrawingNo(l, min) ==
    LET m == FirstHit(DrawingNoIn, l, 1) IN
    IF m # NoTok /\ TokLen(m) > min THEN m ELSE NoTok

\* Strategy 1: the 'Drawing Number' line itself, then the four lines after
RECURSIVE NoStrategy1(_, _)
NoStrategy1(ls, i) ==
    IF i > Len(ls) THEN NoTok
    ELSE IF ~HasPair(ls[i], "Drawing", "Number") THEN NoStrategy1(ls, i + 1)
    ELSE IF LongDrawingNo(ls[i], 15) # NoTok THEN LongDrawingNo(ls[i], 15)
    ELSE LET after == SubSeq(ls, i + 1, Min(i - 1 + 5, Len(ls)))
             hit == FirstHit(LAMBDA c : LongDrawingNo(c, 15), after, 1)
         IN  IF hit # NoTok THEN hit ELSE NoStrategy1(ls, i + 1)

\* Strategy 2: the five expected numbers, as a substring of a line
ExpectedNo(t) == IF t = "L02-R02DXX-RSG-00-ZZ-SKT-LS-12801" THEN t ELSE NoTok

NoStrategy2(l) == FirstHit(ExpectedNo, l, 1)

\* Strategy 3: (L\d{2}-[A-Z0-9\-]{20,}), a match of 24 characters or more,
\* in lines i-5 .. i+4 around a line that holds 'Project No', 'Scale at ISO',
\* 'Issue Date' or 'Revision'
NoStrategy3(ls) ==
    LET around(i) ==
            IF \E k \in 1..Len(ls[i]) : ls[i][k] = "Revision"
            THEN FirstHit(LAMBDA c : LongDrawingNo(c, 23),
                          SubSeq(ls, Max(0, i - 1 - 5) + 1, Min(Len(ls), i - 1 + 5)), 1)
            ELSE NoTok
    IN  FirstHit(LAMBDA x : x, [i \in 1..Len(ls) |-> around(i)], 1)

\* Strategy 4: any match longer than 20 characters
NoStrategy4(l) == FirstHit(LAMBDA t : IF DrawingNoIn(t) # NoTok /\ TokLen(t) > 20
                                      THEN t ELSE NoTok, l, 1)

extract_drawing_number_fixed(ls) ==
    LET tries == << NoStrategy1(ls, 1), FirstHit(NoStrategy2, ls, 1),
                    NoStrategy3(ls), FirstHit(NoStrategy4, ls, 1) >>
    IN  FirstHit(LAMBDA x : x, tries, 1)

-----------------------------------------------------------------------------
(* extract_table_title_enhanced *)

valid_titles == << <<"Concept", "Design">>, <<"Schematic", "Design">>,
                   <<"Design", "Development">>, <<"Construction", "Documents">>,
                   <<"Construction", "Procurement">> >>

\* A match on the first word of a label only
TitleOfLine_FirstWord(l) ==
    LET first == { k \in 1..Len(valid_titles) :
                     /\ \E i \in 1..Len(l) : Upper(l[i]) = Upper(valid_titles[k][1])
                     /\ \A j \in 1..(k - 1) :
                           \A i \in 1..Len(l) : Upper(l[i]) # Upper(valid_titles[j][1]) }
    IN  IF first = {} THEN <<>> ELSE valid_titles[CHOOSE k \in first : TRUE]

\* the first valid title, in list order, whose upper case is in line.upper()
TitleOfLine(l) ==
    LET hit(v) == IF HasPair(UpperLine(l), Upper(v[1]), Upper(v[2])) THEN v ELSE <<>>
        hits == [k \in 1..Len(valid_titles) |-> hit(valid_titles[k])]
        first == { k \in 1..Len(hits) : hits[k] # <<>> /\ \A j \in 1..(k - 1) : hits[j] = <<>> }
    IN  IF first = {} THEN <<>> ELSE hits[CHOOSE k \in first : TRUE]

\* A scan without the default fallback
RECURSIVE TableTitleFrom_NoDefault(_, _)
TableTitleFrom_NoDefault(ls, i) ==
    IF i > Len(ls) THEN <<>>
    ELSE IF TitleOfLine(ls[i]) # <<>> THEN TitleOfLine(ls[i])
    ELSE TableTitleFrom_NoDefault(ls, i + 1)

RECURSIVE TableTitleFrom(_, _)
TableTitleFrom(ls, i) ==
    IF i > Len(ls) THEN <<"Construction", "Procurement">>
    ELSE IF TitleOfLine(ls[i]) # <<>> THEN TitleOfLine(ls[i])
    ELSE TableTitleFrom(ls, i + 1)

extract_table_title_enhanced(ls) == TableTitleFrom(ls, 1)


-----------------------------------------------------------------------------
(* find_latest_revision_enhanced *)

\* rev_str[0] of a code: "T", "N", or "" for a code that starts with a digit
RevPrefix(rev) ==
    CASE rev \in {"T0", "T1", "T2"} -> "T"
      [] rev \in {"N0", "N1"} -> "N"
      [] OTHER -> ""

\* int(rev_str[1:]) of a T/N code, int(rev_str) of a numeric code
RevNumber(rev) ==
    CASE rev \in {"T0", "N0"} -> 0
      [] rev \in {"T1", "N1"} -> 1
      [] rev = "T2" -> 2
      [] rev = "07" -> 7
      [] rev = "27" -> 27
      [] OTHER -> 0

\* The order of the prefixes with 'N' above 'T'
PrefixRank_NAboveT(x) == CASE x = "T" -> 1 [] x = "N" -> 2 [] OTHER -> 0

\* the order of the prefixes as Python compares the strings: '' < 'N' < 'T'
PrefixRank(x) == CASE x = "T" -> 2 [] x = "N" -> 1 [] OTHER -> 0

\* revision_sort_key: (0, prefix, number) for ^[TN]\d+$, (1, '', number)
\* for ^\d{2}$; every code of the vocabulary is one or the other
revision_sort_key(e) ==
    IF e.revision \in TNTok
    THEN <<0, PrefixRank(RevPrefix(e.revision)), RevNumber(e.revision)>>
    ELSE <<1, 0, RevNumber(e.revision)>>

\* tuple comparison a <= b
KeyLeq(a, b) ==
    \/ a[1] < b[1]
    \/ a[1] = b[1] /\ a[2] < b[2]
    \/ a[1] = b[1] /\ a[2] = b[2] /\ a[3] <= b[3]

\* the duplicate removal: the first entry of each (revision, date)
RECURSIVE Unique(_, _)
Unique(seen, es) ==
    IF es = <<>> THEN seen
    ELSE Unique(IF NotProcessed(seen, Head(es).revision, Head(es).date)
                THEN Append(seen, Head(es)) ELSE seen, Tail(es))

\* list.sort(key=...): stable, ascending.  x goes behind every element whose
\* key is not greater
RECURSIVE InsertSorted(_, _)
InsertSorted(sorted, x) ==
    IF sorted = <<>> THEN <<x>>
    ELSE IF KeyLeq(revision_sort_key(Head(sorted)), revision_sort_key(x))
         THEN <<Head(sorted)>> \o InsertSorted(Tail(sorted), x)
    ELSE <<x>> \o sorted

RECURSIVE SortByKey(_, _)
SortByKey(sorted, es) ==
    IF es = <<>> THEN sorted
    ELSE SortByKey(InsertSorted(sorted, Head(es)), Tail(es))

\* None is modelled by NoEntry
NoEntry == [revision |-> NoTok]

\* The positionally last entry, without the sort
find_latest_revision_enhanced_Last(es) ==
    IF es = <<>> THEN NoEntry ELSE es[Len(es)]

find_latest_revision_enhanced(es) ==
    IF es = <<>> THEN NoEntry
    ELSE LET sorted == SortByKey(<<>>, Unique(<<>>, es)) IN sorted[Len(sorted)]


-----------------------------------------------------------------------------
(* extract_pdf_info *)

\* Where the body of the try block raises: nowhere; while the file is
\* opened and its text read (before any field is set); in the last step,
\* extract_table_title_enhanced (after every other field and the status
\* are set)
Faults == {"none", "open", "table"}

\* the record `result` is initialised to (file_name is left out)
InitialResult ==
    [drawing_title |-> <<>>, drawing_number |-> NoTok, revision |-> NoTok,
     latest_revision |-> NoTok, latest_date |-> NoTok, latest_reason |-> <<>>,
     table_title |-> <<>>, status |-> "FAILED"]

\* f'ERROR: {str(e)}'
ErrorStatus(f) == IF f = "open" THEN "ERROR: open" ELSE "ERROR: table_title"

ErrorStatuses == {"ERROR: open", "ERROR: table_title"}

FailedStatuses == {"FAILED", "FAILED - Revision not found in history",
                   "FAILED - No valid revisions found",
                   "FAILED - No revision history found"}

\* result['revision'] in line, for one token of the line
ContainsRev(t, rev) ==
    t = rev \/ (rev = "07" /\ t \in {"07/11/2024", "EB0707/11/2024"})

\* the first line that holds the revision and a date, or <<>>
RECURSIVE RevisionLine(_, _, _)
RevisionLine(ls, rev, i) ==
    IF i > Len(ls) THEN <<>>
    ELSE IF /\ \E k \in 1..Len(ls[i]) : ContainsRev(ls[i][k], rev)
            /\ FirstHit(DateIn, ls[i], 1) # NoTok
         THEN ls[i]
    ELSE RevisionLine(ls, rev, i + 1)

\* The history entry taken by position instead of by code
MatchingRevision_First(revs, rev) == IF revs = <<>> THEN [revision |-> NoTok] ELSE Head(revs)

\* the first matching entry of the history, or NoEntry
RECURSIVE MatchingRevision(_, _)
MatchingRevision(revs, rev) ==
    IF revs = <<>> THEN NoEntry
    ELSE IF Head(revs).revision = rev THEN Head(revs)
    ELSE MatchingRevision(Tail(revs), rev)

\* the branch taken when the history has an entry of the current revision
FoundInHistory(res, m) ==
    [res EXCEPT !.latest_revision = m.revision, !.latest_date = m.date,
                !.latest_reason = m.reason, !.status = "SUCCESS"]

\* A mismatch branch that fills the latest fields in from the current revision
NotInHistory_KeepsCurrent(res) ==
    [res EXCEPT !.latest_revision = res.revision, !.status = "SUCCESS"]

\* the branch taken when the history has no entry of the current revision
NotInHistory(res) ==
    [res EXCEPT !.latest_revision = NoTok, !.latest_date = NoTok,
                !.latest_reason = <<>>,
                !.status = "FAILED - Revision not found in history"]

\* the branch taken when a current revision was found and no history
NoHistory(res, ls) ==
    LET rev == res.revision
        line == RevisionLine(ls, rev, 1)
        revision_date == IF line = <<>> THEN NoTok ELSE FirstHit(DateIn, line, 1)
        revision_reason ==
            IF line = <<>> THEN <<>>
            ELSE IF HasPair(line, "Design", "Development")
                 THEN <<"Design", "Development">>
            ELSE IF \E k \in 1..Len(line) : line[k] = "Construction"
                 THEN <<"Issued", "for", "Construction">>
            ELSE <<>>
    IN  [res EXCEPT
            !.latest_revision = rev,
            !.latest_date = revision_date,
            !.latest_reason =
                IF revision_reason # <<>> THEN revision_reason
                ELSE IF RevPrefix(rev) = "T" THEN <<"Issued", "for", "Tender">>
                ELSE IF RevPrefix(rev) = "N" THEN <<"Issued", "for", "Construction">>
                ELSE IF rev \in Num2Tok THEN <<"Design", "Development">>
                ELSE @,
            !.status = "SUCCESS"]

\* the branch taken when no current revision was found but a history was
HistoryOnly(res, revs) ==
    LET l == find_latest_revision_enhanced(revs) IN
    IF l # NoEntry
    THEN [res EXCEPT !.latest_revision = l.revision, !.latest_date = l.date,
                     !.latest_reason = l.reason, !.status = "SUCCESS"]
    ELSE [res EXCEPT !.status = "FAILED - No valid revisions found"]

\* the validation rule: the if / elif chain on revision and history
ResolveLatest(res, ls, revs) ==
    IF res.revision # NoTok /\ revs # <<>>
    THEN LET m == MatchingRevision(revs, res.revision) IN
         IF m # NoEntry THEN FoundInHistory(res, m) ELSE NotInHistory(res)
    ELSE IF res.revision # NoTok /\ revs = <<>> THEN NoHistory(res, ls)
    ELSE IF revs # <<>> THEN HistoryOnly(res, revs)
    ELSE [res EXCEPT !.status = "FAILED - No revision history found"]

\* the business rules on latest_reason
ApplyReasonRules(res) ==
    IF res.latest_revision = NoTok THEN res
    ELSE IF RevPrefix(res.latest_revision) = "T"
         THEN [res EXCEPT !.latest_reason = <<"Issued", "for", "Tender">>]
    ELSE IF RevPrefix(res.latest_revision) = "N"
         THEN [res EXCEPT !.latest_reason = <<"Issued", "for", "Construction">>]
    ELSE res

\* A handler that catches only the failure to open the file
IsCaught_OpenOnly(f) == f = "open"

\* `except Exception as e`: every modelled fault is an Exception
IsCaught(f) == f \in {"open", "table"}

\* the handler
ExceptHandler(res, f) == [res EXCEPT !.status = ErrorStatus(f)]

\* `result` as the try block leaves it with the table title still to set
BeforeTableTitle(ls) ==
    LET fields == [InitialResult EXCEPT
                      !.drawing_title = extract_title_fixed(ls),
                      !.drawing_number = extract_drawing_number_fixed(ls),
                      !.revision = extract_current_revision_fixed(ls)]
    IN  ApplyReasonRules(ResolveLatest(fields, ls, extract_revisions_comprehensive(ls)))

\* the returned record
extract_pdf_info(ls, f) ==
    IF f = "open" THEN ExceptHandler(InitialResult, f)
    ELSE IF f = "table" THEN ExceptHandler(BeforeTableTitle(ls), f)
    ELSE [BeforeTableTitle(ls) EXCEPT !.table_title = extract_table_title_enhanced(ls)]

ExtractPdfInfo ==
    /\ pc = "start"
    /\ pc' = IF fault = "none" \/ IsCaught(fault) THEN "done" ELSE "raised"
    /\ result' = extract_pdf_info(lines, fault)
    /\ revisions' = IF fault = "open" THEN <<>> ELSE extract_revisions_comprehensive(lines)
    /\ UNCHANGED <<lines, fault, entries, latest, pdf_files, results, arg, ret>>

Init ==
    /\ pc = "start"
    /\ lines \in Pages
    /\ fault \in Faults
    /\ revisions = <<>>
    /\ result = InitialResult
    /\ entries = <<>>
    /\ latest = NoEntry
    /\ pdf_files = <<>>
    /\ results = <<>>
    /\ arg = <<>> /\ ret = NoTok

Next == ExtractPdfInfo

Spec == Init /\ [][Next]_vars


-----------------------------------------------------------------------------
(* Properties of extract_pdf_info and the revision parser *)

Returned == pc = "done" /\ fault = "none"

HistoryHas(rev) == \E k \in 1..Len(revisions) : revisions[k].revision = rev

\* C1: a returned status of SUCCESS implies that drawing_title,
\* drawing_number, revision and latest_revision are all non-empty and that
\* revision equals latest_revision.
C1_SuccessImpliesComplete ==
    pc = "done" /\ result.status = "SUCCESS" =>
        /\ result.drawing_title # <<>>
        /\ result.drawing_number # NoTok
        /\ result.revision # NoTok
        /\ result.latest_revision # NoTok
        /\ result.revision = result.latest_revision

\* C2: when a current revision was extracted and the parsed history is
\* non-empty but has no entry of that code, the status is 'FAILED - Revision
\* not found in history' and latest_revision, latest_date and latest_reason
\* are empty.
C2_MismatchFails ==
    Returned /\ result.revision # NoTok /\ revisions # <<>>
             /\ ~HistoryHas(result.revision) =>
        /\ result.status = "FAILED - Revision not found in history"
        /\ result.latest_revision = NoTok
        /\ result.latest_date = NoTok
        /\ result.latest_reason = <<>>

C2_Witness ==
    /\ Returned
    /\ result.revision = "27"
    /\ HistoryHas("T0") /\ HistoryHas("T1")
    /\ result.status = "FAILED - Revision not found in history"

\* C3: when a current revision was extracted but the parser returns no
\* history entry at all, the status is not SUCCESS and latest_revision,
\* latest_date and latest_reason stay empty.
C3_NoHistoryFails ==
    Returned /\ result.revision # NoTok /\ revisions = <<>> =>
        /\ result.status # "SUCCESS"
        /\ result.latest_revision = NoTok
        /\ result.latest_date = NoTok
        /\ result.latest_reason = <<>>

\* C4: when a current revision was extracted and the parsed history has an
\* entry of that code, the status is SUCCESS, latest_revision is the current
\* revision and latest_date is the date of an entry of that code.
C4_MatchSucceeds ==
    Returned /\ result.revision # NoTok /\ HistoryHas(result.revision) =>
        /\ result.status = "SUCCESS"
        /\ result.latest_revision = result.revision
        /\ \E k \in 1..Len(revisions) :
              /\ revisions[k].revision = result.revision
              /\ revisions[k].date = result.latest_date

\* current T1 with a history whose first entry is T0
C4_Witness ==
    /\ Returned
    /\ result.revision = "T1"
    /\ Len(revisions) >= 2 /\ revisions[1].revision = "T0" /\ revisions[2].revision = "T1"
    /\ result.status = "SUCCESS" /\ result.latest_date = "07/11/2024"

CodeDate(es) == [k \in 1..Len(es) |-> <<es[k].revision, es[k].date>>]

\* C6: the rows 'T0 26/10/2023 ISSUED FOR TENDER AK' and 'T1 07/11/2024
\* ISSUED FOR TENDER NQ' parse into exactly the two entries (T0, 26/10/2023)
\* and (T1, 07/11/2024), as two consecutive lines and as one line.
C6_TwoRowsTwoEntries ==
    Returned /\ lines \in {<<Row0, Row1>>, <<Row0 \o Row1>>} =>
        CodeDate(revisions) = << <<"T0", "26/10/2023">>, <<"T1", "07/11/2024">> >>

\* C7: the parser never returns two entries with the same (code, date).
C7_NoDuplicateEntries ==
    \A i, j \in 1..Len(revisions) :
        i # j => CodeDate(revisions)[i] # CodeDate(revisions)[j]

\* one row found by three patterns of strategy 1, by the table strategy and
\* by the date strategy, returned once
C7_Witness ==
    /\ Returned
    /\ Len(Strategy1(lines)) >= 3
    /\ Len(Strategy3(lines)) >= 1
    /\ Len(Strategy4(lines)) >= 1
    /\ Len(revisions) = 1

\* C8: extract_pdf_info never propagates an exception; the status of the
\* returned record is SUCCESS, begins with FAILED or begins with ERROR:, and
\* is SUCCESS only if no step raised.
C8_NeverRaises ==
    /\ pc # "raised"
    /\ pc = "done" =>
        /\ result.status \in {"SUCCESS"} \cup FailedStatuses \cup ErrorStatuses
        /\ result.status = "SUCCESS" => fault = "none"

\* a failure after the status was set to SUCCESS
C8_Witness ==
    /\ pc = "done" /\ fault = "table"
    /\ result.latest_revision # NoTok
    /\ result.status \in ErrorStatuses

\* 0 followed by one digit 1-9
ZeroDigitTok == {"07"}

\* C10: every numeric current revision extract_current_revision_fixed
\* returns is 0 followed by one digit 1-9.
C10_NumericRevisionIs0N ==
    Returned /\ result.revision \in Num2Tok => result.revision \in ZeroDigitTok


-----------------------------------------------------------------------------
(* The resolver on its own: find_latest_revision_enhanced applied to a
   revision history *)

ResolverCodes == TNTok \cup Num2Tok

\* the entries a history is drawn from: a code of one of the three
\* families, a date, the index of its source line
EntryUniverse ==
    [revision : ResolverCodes, date : {"26/10/2023"},
     reason : {<<"ISSUED", "FOR", "TENDER">>}, line_index : {5, 20}]

Histories == UNION { [1..n -> EntryUniverse] : n \in 0..MaxEntries }

InitResolver ==
    /\ pc = "start"
    /\ entries \in Histories
    /\ latest = NoEntry
    /\ lines = <<>> /\ fault = "none" /\ revisions = <<>>
    /\ result = InitialResult /\ pdf_files = <<>> /\ results = <<>>
    /\ arg = <<>> /\ ret = NoTok

FindLatest ==
    /\ pc = "start"
    /\ pc' = "done"
    /\ latest' = find_latest_revision_enhanced(entries)
    /\ UNCHANGED <<lines, fault, revisions, result, entries, pdf_files, results, arg, ret>>

NextResolver == FindLatest

SpecResolver == InitResolver /\ [][NextResolver]_vars

\* all T codes, all N codes, or all two-digit numeric codes
OneFamily(es) ==
    \/ \A k \in 1..Len(es) : RevPrefix(es[k].revision) = "T"
    \/ \A k \in 1..Len(es) : RevPrefix(es[k].revision) = "N"
    \/ \A k \in 1..Len(es) : es[k].revision \in Num2Tok

\* C5: among entries of one family, find_latest_revision_enhanced returns
\* the entry with the highest numeric suffix, whatever the line positions
\* and the list order.
C5_HighestSuffixInFamily ==
    pc = "done" /\ entries # <<>> /\ OneFamily(entries) =>
        /\ \E k \in 1..Len(entries) : entries[k] = latest
        /\ \A k \in 1..Len(entries) :
              RevNumber(entries[k].revision) <= RevNumber(latest.revision)

\* entries [T0 at line 5, T1 at line 20] give T1
C5_Witness ==
    /\ pc = "done"
    /\ Len(entries) = 2
    /\ entries[1].revision = "T0" /\ entries[1].line_index = 5
    /\ entries[2].revision = "T1" /\ entries[2].line_index = 20
    /\ latest = entries[2]

-----------------------------------------------------------------------------
(* process_multiple_pdfs and process_single_pdf (truly-dynamic variant) *)

\* What the page of a document yields: whether fitz can open it, and the
\* values its extraction functions return; history is the code of the last
\* row of the revision history on the page, which no extraction function
\* reads
PageContents ==
    { [opens |-> FALSE, number |-> "", title |-> "", revision |-> "",
       date |-> "", reason |-> "", history |-> ""],
      [opens |-> TRUE, number |-> "L02-R02DXX-RSG-00-ZZ-SKT-LS-12801",
       title |-> "Pool Enlargement Plan", revision |-> "N0",
       date |-> "31/07/25", reason |-> "Issued For Construction",
       history |-> "N0"],
      [opens |-> TRUE, number |-> "L02-R02DXX-RSG-00-ZZ-SKT-LS-12801",
       title |-> "Pool Enlargement Plan", revision |-> "N0",
       date |-> "31/07/25", reason |-> "Issued For Construction",
       history |-> "N1"],
      [opens |-> TRUE, number |-> "L02-R02DXX-RSG-00-ZZ-SKT-LS-12801",
       title |-> "", revision |-> "N0",
       date |-> "31/07/25", reason |-> "Issued For Construction",
       history |-> "N0"],
      [opens |-> TRUE, number |-> "L02-R02DXX-RSG-00-ZZ-SKT-LS-12801",
       title |-> "Pool Enlargement Plan", revision |-> "",
       date |-> "31/07/25", reason |-> "Issued For Construction",
       history |-> "N1"],
      [opens |-> TRUE, number |-> "", title |-> "Pool Enlargement Plan",
       revision |-> "N0", date |-> "", reason |-> "", history |-> ""] }

\* the files of the directory, named by their number
FileNames == 1..MaxBatch

PdfDocs == { [name |-> n, page |-> c] : n \in FileNames, c \in PageContents }

\* Path(pdf_directory).glob('*.pdf'): distinct files
Batches ==
    { b \in UNION { [1..n -> PdfDocs] : n \in 0..MaxBatch } :
        \A i, j \in 1..Len(b) : i # j => b[i].name # b[j].name }

required_fields == <<"drawing_title", "drawing_number", "revision",
                     "latest_revision", "latest_date", "latest_reason">>

MissingStatus(field) ==
    CASE field = "drawing_title" -> "FAILED - Missing drawing_title"
      [] field = "drawing_number" -> "FAILED - Missing drawing_number"
      [] field = "revision" -> "FAILED - Missing revision"
      [] field = "latest_revision" -> "FAILED - Missing latest_revision"
      [] field = "latest_date" -> "FAILED - Missing latest_date"
      [] OTHER -> "FAILED - Missing latest_reason"

\* str.strip() of a field value
Strip(v) ==
    CASE v = " " -> ""
      [] v = "T1 " -> "T1"
      [] OTHER -> v

\* The last empty field instead of the first
RECURSIVE FirstMissing_Last(_, _)
FirstMissing_Last(res, k) ==
    IF k > Len(required_fields) THEN ""
    ELSE IF FirstMissing_Last(res, k + 1) # "" THEN FirstMissing_Last(res, k + 1)
    ELSE IF Strip(res[required_fields[k]]) = "" THEN required_fields[k]
    ELSE ""

\* `not result[field] or result[field].strip() == ""`, field by field
RECURSIVE FirstMissing(_, _)
FirstMissing(res, k) ==
    IF k > Len(required_fields) THEN ""
    ELSE IF res[required_fields[k]] = "" \/ Strip(res[required_fields[k]]) = ""
         THEN required_fields[k]
    ELSE FirstMissing(res, k + 1)

\* f"FAILED - Revision mismatch: {current_rev} != {latest_rev}"
MismatchStatus(current_rev, latest_rev) ==
    CASE current_rev = "T0" /\ latest_rev = "T1" -> "FAILED - Revision mismatch: T0 != T1"
      [] current_rev = "T1" /\ latest_rev = "T0" -> "FAILED - Revision mismatch: T1 != T0"
      [] OTHER -> "FAILED - Revision mismatch"

validate_extraction_result(res) ==
    IF FirstMissing(res, 1) # "" THEN MissingStatus(FirstMissing(res, 1))
    ELSE IF Strip(res.revision) # Strip(res.latest_revision)
         THEN MismatchStatus(Strip(res.revision), Strip(res.latest_revision))
    ELSE "SUCCESS"

\* the record the except branch returns
ErrorRecord(doc) ==
    [file_name |-> doc.name, drawing_title |-> "", drawing_number |-> "",
     revision |-> "", latest_revision |-> "", latest_date |-> "",
     latest_reason |-> "", status |-> "ERROR: cannot open"]

\* latest_revision read from the revision history of the page
process_single_pdf_FromHistory(doc) ==
    IF ~doc.page.opens THEN ErrorRecord(doc)
    ELSE LET res == [file_name |-> doc.name,
                     drawing_title |-> doc.page.title,
                     drawing_number |-> doc.page.number,
                     revision |-> doc.page.revision,
                     latest_revision |-> doc.page.history,
                     latest_date |-> doc.page.date,
                     latest_reason |-> doc.page.reason,
                     status |-> ""]
         IN  [res EXCEPT !.status = validate_extraction_result(res)]

\* 'latest_revision': current_revision
process_single_pdf(doc) ==
    IF ~doc.page.opens THEN ErrorRecord(doc)
    ELSE LET res == [file_name |-> doc.name,
                     drawing_title |-> doc.page.title,
                     drawing_number |-> doc.page.number,
                     revision |-> doc.page.revision,
                     latest_revision |-> doc.page.revision,
                     latest_date |-> doc.page.date,
                     latest_reason |-> doc.page.reason,
                     status |-> ""]
         IN  [res EXCEPT !.status = validate_extraction_result(res)]

InitBatch ==
    /\ pc = "loop"
    /\ pdf_files \in Batches
    /\ results = <<>>
    /\ arg = <<>> /\ ret = NoTok
    /\ lines = <<>> /\ fault = "none" /\ revisions = <<>>
    /\ result = InitialResult /\ entries = <<>> /\ latest = NoEntry

\* The loop stopped by the first document that fails
ProcessNextPdf_Abort ==
    /\ pc = "loop"
    /\ Len(results) < Len(pdf_files)
    /\ LET r == process_single_pdf(pdf_files[Len(results) + 1]) IN
       IF r.status = "SUCCESS"
       THEN results' = Append(results, r) /\ pc' = pc
       ELSE results' = results /\ pc' = "done"
    /\ UNCHANGED <<lines, fault, revisions, result, entries, latest, pdf_files, arg, ret>>

\* one iteration of `for pdf_file in pdf_files`
ProcessNextPdf ==
    /\ pc = "loop"
    /\ Len(results) < Len(pdf_files)
    /\ results' = Append(results, process_single_pdf(pdf_files[Len(results) + 1]))
    /\ UNCHANGED <<pc, lines, fault, revisions, result, entries, latest, pdf_files, arg, ret>>

\* `return results` after the loop, and `return []` of an empty directory
ReturnResults ==
    /\ pc = "loop"
    /\ Len(results) = Len(pdf_files)
    /\ pc' = "done"
    /\ UNCHANGED <<lines, fault, revisions, result, entries, latest, pdf_files, results, arg, ret>>

NextBatch == ProcessNextPdf \/ ReturnResults

SpecBatch == InitBatch /\ [][NextBatch]_vars

\* C9: the result list holds exactly one record for every input document,
\* in input order, whichever documents fail: each record is the one of its
\* own document, and the returned list has a record for every document.
C9_OneRecordPerDocument ==
    /\ Len(results) <= Len(pdf_files)
    /\ pc = "done" => Len(results) = Len(pdf_files)
    /\ \A i \in 1..Len(results) :
          /\ results[i].file_name = pdf_files[i].name
          /\ results[i].drawing_title = pdf_files[i].page.title
          /\ results[i].status = "ERROR: cannot open" <=> ~pdf_files[i].page.opens

\* an unreadable document between two documents that succeed
C9_Witness ==
    /\ pc = "done"
    /\ Len(results) = 3
    /\ results[1].status = "SUCCESS"
    /\ results[2].status = "ERROR: cannot open"
    /\ results[3].status = "SUCCESS"


-----------------------------------------------------------------------------
(* The reason rules of extract_pdf_info *)

\* C11: when the history entry of the current revision carries a non-empty
\* parsed reason, extract_pdf_info returns that parsed reason unchanged.
C11_ParsedReasonKept ==
    Returned /\ result.revision # NoTok /\ HistoryHas(result.revision) =>
        LET m == MatchingRevision(revisions, result.revision) IN
        m.reason # <<>> => result.latest_reason = m.reason


-----------------------------------------------------------------------------
(* extract_drawing_number_from_content (pdf_extractor_truly_dynamic.py):
   the drawing number read from the positioned text spans of a page *)

\* most spans on a page
MaxSpans == 3

\* every variable of the other specifications at rest
AtRest ==
    /\ lines = <<>> /\ fault = "none" /\ revisions = <<>>
    /\ result = InitialResult /\ entries = <<>> /\ latest = NoEntry
    /\ pdf_files = <<>> /\ results = <<>>

\* page.rect.width and page.rect.height
page_width == 10
page_height == 10

\* span["text"].strip() of the spans a page is drawn from
SpanTexts ==
    { "L01-H01D01-FOS-00-XX-MUP-AR-80050",
      "L04-A04D02-CHP-16-00-DWG-SP-10001",
      "L02-R02DXX-RSG-00-ZZ-SKT-LS-12801",
      "Dwg No L02-R02DXX-RSG-BN-ZZ-SKT-LS-11435",
      "Pool Enlargement Plan" }

\* bbox[0] and bbox[1] of a span, either side of the title-block corner
SpanX0 == {5, 6}
SpanY0 == {6, 7}

Spans == [text : SpanTexts, x0 : SpanX0, y0 : SpanY0]

\* the spans of text_dict["blocks"] in reading order; a block without
\* "lines" holds no span
SpanPages == UNION { [1..n -> Spans] : n \in 0..MaxSpans }

\* re.findall of drawing_number_patterns[p] in a text: the standard format,
\* the XX placeholder format, the numeric format, the flexible pattern
FindAllDrawingNo(p, text) ==
    CASE text = "L01-H01D01-FOS-00-XX-MUP-AR-80050" /\ p \in {1, 4} -> <<text>>
      [] text = "L04-A04D02-CHP-16-00-DWG-SP-10001" /\ p \in {3, 4} -> <<text>>
      [] text = "L02-R02DXX-RSG-00-ZZ-SKT-LS-12801" /\ p = 4 -> <<text>>
      [] text = "Dwg No L02-R02DXX-RSG-BN-ZZ-SKT-LS-11435" /\ p \in {2, 4} ->
            <<"L02-R02DXX-RSG-BN-ZZ-SKT-LS-11435">>
      [] OTHER -> <<>>

\* the entries one span adds to drawing_numbers_found, pattern by pattern
SpanNumbers(text, location, confidence) ==
    LET per(p) == LET ms == FindAllDrawingNo(p, text) IN
                  [k \in 1..Len(ms) |-> [number |-> ms[k], location |-> location,
                                         confidence |-> confidence]]
    IN  per(1) \o per(2) \o per(3) \o per(4)

\* bbox[0] >= page_width * 0.6 and bbox[1] >= page_height * 0.7
InTitleBlock(span) ==
    /\ span.x0 * 10 >= page_width * 6
    /\ span.y0 * 10 >= page_height * 7

\* the first loop: the spans of the title block
TitleBlockNumbers(spans) ==
    ConcatAll([i \in 1..Len(spans) |->
        IF InTitleBlock(spans[i])
        THEN SpanNumbers(spans[i].text, "title_block", 10) ELSE <<>>])

\* the second loop: every span of the page
PageNumbers(spans) ==
    ConcatAll([i \in 1..Len(spans) |-> SpanNumbers(spans[i].text, "page_content", 5)])

\* sort(key=confidence, reverse=True)[0]: the sort is stable, so the first
\* entry of the highest confidence
RECURSIVE BestMatch(_, _)
BestMatch(found, best) ==
    IF found = <<>> THEN best
    ELSE BestMatch(Tail(found),
                   IF Head(found).confidence > best.confidence THEN Head(found) ELSE best)

\* A search that always scans the whole page and keeps the first match
extract_drawing_number_from_content_PageWide(spans) ==
    LET found == PageNumbers(spans) IN
    IF found # <<>> THEN BestMatch(Tail(found), Head(found)).number ELSE NoTok

extract_drawing_number_from_content(spans) ==
    LET title_block == TitleBlockNumbers(spans)
        found == IF title_block = <<>> THEN PageNumbers(spans) ELSE title_block
    IN  IF found # <<>> THEN BestMatch(Tail(found), Head(found)).number ELSE NoTok

InitDrawingNo ==
    /\ pc = "start"
    /\ arg \in SpanPages
    /\ ret = NoTok
    /\ AtRest

ExtractDrawingNumber ==
    /\ pc = "start"
    /\ pc' = "done"
    /\ ret' = extract_drawing_number_from_content(arg)
    /\ UNCHANGED <<lines, fault, revisions, result, entries, latest, pdf_files,
                   results, arg>>

NextDrawingNo == ExtractDrawingNumber

SpecDrawingNo == InitDrawingNo /\ [][NextDrawingNo]_vars

\* the numbers a span's text holds
NumbersIn(span) == { FindAllDrawingNo(p, span.text)[1] :
                        p \in { q \in 1..4 : FindAllDrawingNo(q, span.text) # <<>> } }

\* C12: if any title-block span matches the grammar the returned number is
\* the one of the first matching title-block span; only when none matches
\* is a number of the rest of the page returned.
C12_TitleBlockWins ==
    pc = "done" =>
        LET hits == { i \in 1..Len(arg) : InTitleBlock(arg[i]) /\ NumbersIn(arg[i]) # {} }
        IN  IF hits # {}
            THEN \E i \in hits : /\ ret \in NumbersIn(arg[i])
                                 /\ \A j \in hits : i <= j
            ELSE \/ ret = NoTok /\ \A i \in 1..Len(arg) : NumbersIn(arg[i]) = {}
                 \/ \E i \in 1..Len(arg) : ret \in NumbersIn(arg[i])

\* a number outside the title block comes first and the one inside is returned
C12_Witness ==
    /\ pc = "done"
    /\ Len(arg) = 2
    /\ arg[1] = [text |-> "L01-H01D01-FOS-00-XX-MUP-AR-80050", x0 |-> 5, y0 |-> 7]
    /\ arg[2] = [text |-> "Dwg No L02-R02DXX-RSG-BN-ZZ-SKT-LS-11435", x0 |-> 6, y0 |-> 7]
    /\ ret = "L02-R02DXX-RSG-BN-ZZ-SKT-LS-11435"


-----------------------------------------------------------------------------
(* process_pdf_with_excel_record (pdf_extractor_testdata.py): one PDF
   checked against its row of the Excel register *)

\* excel_record.get('document_number', ''), .get('revision', ''),
\* .get('title', '')
ExcelNumbers == {"", "L02-R02DXX-RSG-00-ZZ-SKT-LS-12801"}
ExcelRevisions == {"", "T1", "t1", "7", "07"}
ExcelTitles == {"", "Pool Enlargement Plan"}

\* what extract_revision_from_pdf_title_block can return
PdfRevisions == {"", "T0", "T1", "07"}

\* A register row and what the helpers find on the first page of the PDF:
\* pdf_revision is extract_revision_from_pdf_title_block(page),
\* revision_in_history is find_revision_in_history_table(page, revision),
\* number_in_pdf and title_in_pdf are validate_text_in_pdf(page, ...),
\* opens is whether fitz.open and doc[0] succeed
ExcelCases ==
    [document_number : ExcelNumbers, revision : ExcelRevisions, title : ExcelTitles,
     pdf_revision : PdfRevisions, revision_in_history : BOOLEAN,
     number_in_pdf : BOOLEAN, title_in_pdf : BOOLEAN, opens : BOOLEAN]

\* revision = f"0{revision}" for a single digit
FormatRevision(revision) == IF revision = "7" THEN "07" ELSE revision

\* str.upper() of a revision code
UpperRev(rev) == IF rev = "t1" THEN "T1" ELSE rev

\* the record of the except branch
ExcelErrorRecord ==
    [drawing_title |-> "", drawing_number |-> "", revision |-> "",
     latest_revision |-> "", reason |-> "", comments |-> <<>>,
     status |-> "ERROR: cannot open"]

\* steps 1-4: output_revision, output_latest_revision and validation_comment
RevisionValidation(excel_revision, pdf_revision, revision_in_history) ==
    IF excel_revision # "" /\ pdf_revision # ""
    THEN IF UpperRev(excel_revision) = UpperRev(pdf_revision)
         THEN IF revision_in_history
              THEN [revision |-> excel_revision, latest |-> excel_revision,
                    comment |-> ""]
              ELSE [revision |-> excel_revision, latest |-> "",
                    comment |-> "The revision doesn't match with latest revision number"]
         ELSE [revision |-> "", latest |-> "", comment |-> "Revision no. don't match"]
    ELSE IF excel_revision = ""
         THEN [revision |-> "", latest |-> "",
               comment |-> "No revision specified in Excel"]
    ELSE [revision |-> "", latest |-> "",
          comment |-> "Could not extract revision from PDF"]

\* reason from the prefix of output_latest_revision
ReasonOf(latest_revision) ==
    IF latest_revision = "" THEN ""
    ELSE IF UpperRev(latest_revision) \in {"T0", "T1"} THEN "Issued for Tender"
    ELSE ""

process_pdf_with_excel_record(c) ==
    IF ~c.opens THEN ExcelErrorRecord
    ELSE
    LET excel_revision == FormatRevision(c.revision)
        v == RevisionValidation(excel_revision, c.pdf_revision, c.revision_in_history)
        document_number_valid == IF c.document_number # "" THEN c.number_in_pdf ELSE FALSE
        title_valid == IF c.title # "" THEN c.title_in_pdf ELSE FALSE
        revision_failed == v.comment # ""
        number_failed == ~document_number_valid /\ c.document_number # ""
        title_failed == ~title_valid /\ c.title # ""
        comments ==
            (IF revision_failed THEN <<v.comment>> ELSE <<>>)
            \o (IF number_failed THEN <<"Document number not found in PDF">> ELSE <<>>)
            \o (IF title_failed THEN <<"Title mismatch between Excel and PDF">> ELSE <<>>)
    IN  [drawing_title |-> IF title_failed THEN "" ELSE c.title,
         drawing_number |-> c.document_number,
         revision |-> IF revision_failed THEN "" ELSE v.revision,
         latest_revision |-> IF revision_failed THEN "" ELSE v.latest,
         reason |-> IF revision_failed THEN "" ELSE ReasonOf(v.latest),
         comments |-> comments,
         status |-> IF comments = <<>> THEN "SUCCESS" ELSE "FAILED"]

InitExcel ==
    /\ pc = "start"
    /\ arg \in ExcelCases
    /\ ret = NoTok
    /\ AtRest

ProcessPdfWithExcelRecord ==
    /\ pc = "start"
    /\ pc' = "done"
    /\ ret' = process_pdf_with_excel_record(arg)
    /\ UNCHANGED <<lines, fault, revisions, result, entries, latest, pdf_files,
                   results, arg>>

NextExcel == ProcessPdfWithExcelRecord

SpecExcel == InitExcel /\ [][NextExcel]_vars

\* C13: a register value is written to drawing_title, drawing_number or
\* revision of the record only if it was corroborated in the PDF.
C13_OnlyCorroboratedValues ==
    pc = "done" =>
        /\ ret.drawing_title # "" => arg.title_in_pdf
        /\ ret.drawing_number # "" => arg.number_in_pdf
        /\ ret.revision # "" =>
              UpperRev(ret.revision) = UpperRev(arg.pdf_revision)


-----------------------------------------------------------------------------
(* validate_extraction_result on its own: every combination of empty, blank
   and filled fields *)

\* what a field of the extraction record can hold: empty, blank, a value,
\* a value with trailing white space
FieldValues == {"", " ", "T0", "T1", "T1 "}

ExtractionRecords ==
    [drawing_title : FieldValues, drawing_number : FieldValues,
     revision : FieldValues, latest_revision : FieldValues,
     latest_date : FieldValues, latest_reason : FieldValues]

InitValidate ==
    /\ pc = "start"
    /\ arg \in ExtractionRecords
    /\ ret = NoTok
    /\ AtRest

ValidateExtractionResult ==
    /\ pc = "start"
    /\ pc' = "done"
    /\ ret' = validate_extraction_result(arg)
    /\ UNCHANGED <<lines, fault, revisions, result, entries, latest, pdf_files,
                   results, arg>>

NextValidate == ValidateExtractionResult

SpecValidate == InitValidate /\ [][NextValidate]_vars

\* positions in required_fields of the fields that are empty or blank
MissingAt == { k \in 1..Len(required_fields) : Strip(arg[required_fields[k]]) = "" }

MismatchStatuses ==
    {"FAILED - Revision mismatch: T0 != T1", "FAILED - Revision mismatch: T1 != T0"}

\* C14: a FAILED status names the first failing check in the order
\* drawing_title, drawing_number, revision, latest_revision, latest_date,
\* latest_reason; a revision mismatch is reported only when no field is
\* empty; SUCCESS is returned only if title, drawing number, current and
\* latest revision are non-empty and the two codes (white space stripped)
\* are equal.
C14_FirstFailingCheck ==
    pc = "done" =>
        /\ MissingAt # {} =>
              \E k \in MissingAt : /\ \A j \in MissingAt : k <= j
                                   /\ ret = MissingStatus(required_fields[k])
        /\ ret \in MismatchStatuses => MissingAt = {}
        /\ MissingAt = {} /\ Strip(arg.revision) # Strip(arg.latest_revision) =>
              ret \in MismatchStatuses
        /\ ret = "SUCCESS" =>
              /\ arg.drawing_title # "" /\ arg.drawing_number # ""
              /\ arg.revision # "" /\ arg.latest_revision # ""
              /\ Strip(arg.revision) = Strip(arg.latest_revision)

\* two fields missing and a mismatch besides: only the first one is named
C14_Witness ==
    /\ pc = "done"
    /\ arg.drawing_title = "T0" /\ arg.drawing_number = " "
    /\ arg.revision = "T0" /\ arg.latest_revision = "T1"
    /\ arg.latest_date = "" /\ arg.latest_reason = "T1"
    /\ ret = "FAILED - Missing drawing_number"


-----------------------------------------------------------------------------
(* extract_table_title_enhanced on its own: pages of phase labels *)

\* longest page of label lines
MaxLabelLines == 3

\* the lines such a page is drawn from: the five labels in several letter
\* cases, two labels on one line, and lines without a label
LabelLines ==
    { <<"Concept", "Design">>,
      <<"SCHEMATIC", "DESIGN">>,
      <<"100%", "Design", "Development">>,
      <<"Construction", "Documents">>,
      <<"Construction", "Procurement">>,
      <<"construction", "procurement">>,
      <<"Construction", "Procurement", "Concept", "Design">>,
      <<"Pool", "Enlargement", "Plan">>,
      <<"Construction">> }

LabelPages == UNION { [1..n -> LabelLines] : n \in 0..MaxLabelLines }

InitTableTitle ==
    /\ pc = "start"
    /\ arg \in LabelPages
    /\ ret = NoTok
    /\ AtRest

ExtractTableTitle ==
    /\ pc = "start"
    /\ pc' = "done"
    /\ ret' = extract_table_title_enhanced(arg)
    /\ UNCHANGED <<lines, fault, revisions, result, entries, latest, pdf_files,
                   results, arg>>

NextTableTitle == ExtractTableTitle

SpecTableTitle == InitTableTitle /\ [][NextTableTitle]_vars

\* label k of valid_titles is a substring of some line, in any letter case
LabelOnPage(k) ==
    \E i \in 1..Len(arg) :
        HasPair(UpperLine(arg[i]), Upper(valid_titles[k][1]), Upper(valid_titles[k][2]))

LabelsOnPage == { k \in 1..Len(valid_titles) : LabelOnPage(k) }

\* C15: when a page holds more than one of the five labels the one that
\* comes first in the priority order is returned, on whichever lines the
\* labels occur.
C15_PriorityOrderWins ==
    pc = "done" /\ Cardinality(LabelsOnPage) > 1 =>
        \E k \in LabelsOnPage : /\ \A j \in LabelsOnPage : k <= j
                                /\ ret = valid_titles[k]

\* C16 as stated: every page that contains 'Construction Procurement', in
\* any letter case, is classified 'Construction Procurement'.
C16_ProcurementAnywhere ==
    pc = "done" /\ LabelOnPage(5) => ret = <<"Construction", "Procurement">>

\* C16 as amended: a page that contains 'Construction Procurement', in any
\* letter case, and none of the other four labels is classified
\* 'Construction Procurement'.
C16_ProcurementAlone ==
    pc = "done" /\ LabelsOnPage = {5} => ret = <<"Construction", "Procurement">>

\* the label in lower case, after a line without a label
C16_Witness ==
    /\ pc = "done"
    /\ arg = << <<"Pool", "Enlargement", "Plan">>, <<"construction", "procurement">> >>
    /\ ret = <<"Construction", "Procurement">>

\* C17: the result is one of the five labels, never empty, and is
\* 'Construction Procurement' when no line holds a label.
C17_AlwaysALabel ==
    pc = "done" =>
        /\ \E k \in 1..Len(valid_titles) : ret = valid_titles[k]
        /\ LabelsOnPage = {} => ret = <<"Construction", "Procurement">>

\* lines without any label
C17_Witness ==
    /\ pc = "done"
    /\ arg = << <<"Pool", "Enlargement", "Plan">>, <<"Construction">> >>
    /\ LabelsOnPage = {}
    /\ ret = <<"Construction", "Procurement">>


-----------------------------------------------------------------------------
(* extract_title_from_pdf (pdf_extractor_truly_dynamic.py): the title as the
   best-scoring span of the upper part of the page *)

\* most spans on a page of title candidates
MaxTitleSpans == 2

\* span["text"].strip() of the spans such a page is drawn from
TitleTexts ==
    { "Pool Enlargement Plan", "Main Pool Piping Layout", "General Notes",
      "Drawing Title", "L02-R02DXX-RSG-00-ZZ-SKT-LS-12801", "Rev" }

\* len(text)
TitleTextLen(text) ==
    CASE text = "Pool Enlargement Plan" -> 21
      [] text = "Main Pool Piping Layout" -> 23
      [] text = "General Notes" -> 13
      [] text = "Drawing Title" -> 13
      [] text \in { "L01-H01D01-FOS-00-XX-MUP-AR-80050",
                    "L02-R02DXX-RSG-00-ZZ-SKT-LS-12801",
                    "L04-A04D02-CHP-16-00-DWG-SP-10001" } -> 33
      [] OTHER -> 3

\* some pattern of non_title_patterns is found in the text (re.IGNORECASE):
\* ^Drawing Title$ and the drawing number pattern
IsNonTitle(text) == text \in {"Drawing Title", "L02-R02DXX-RSG-00-ZZ-SKT-LS-12801"}

\* some descriptive keyword is in text.lower()
HasKeyword(text) == text \in {"Pool Enlargement Plan", "Main Pool Piping Layout"}

\* span["size"], bbox[0] (the span is 2 wide) and bbox[1]
TitleSpans == [text : TitleTexts, size : {8, 10, 12}, x0 : {0, 4}, y0 : {2, 5}]

TitleSpanPages == UNION { [1..n -> TitleSpans] : n \in 0..MaxTitleSpans }

\* the skips: below the top 40% of the page, short text, small font, a
\* non-title pattern
IsTitleCandidate(span) ==
    /\ ~(span.y0 * 10 > page_height * 4)
    /\ ~(TitleTextLen(span.text) < 4 \/ span.size < 9)
    /\ ~IsNonTitle(span.text)

\* the additive score: centre position, font size, length, keyword
TitleScore(span) ==
    (IF /\ 15 * page_width * 2 <= (span.x0 + span.x0 + 2) * 100
        /\ (span.x0 + span.x0 + 2) * 100 <= 85 * page_width * 2 THEN 20 ELSE 0)
    + (IF span.size >= 12 THEN 15 ELSE IF span.size >= 10 THEN 10 ELSE 0)
    + (IF TitleTextLen(span.text) >= 20 THEN 15
       ELSE IF TitleTextLen(span.text) >= 10 THEN 8 ELSE 0)
    + (IF HasKeyword(span.text) THEN 25 ELSE 0)

\* title_candidates, in the order the spans are listed
TitleCandidates(spans) ==
    ConcatAll([i \in 1..Len(spans) |->
        IF IsTitleCandidate(spans[i])
        THEN << [text |-> spans[i].text, score |-> TitleScore(spans[i])] >>
        ELSE <<>>])

\* sort(key=-score)[0]: the sort is stable, so the first candidate of the
\* highest score
RECURSIVE BestCandidate(_, _)
BestCandidate(cands, best) ==
    IF cands = <<>> THEN best
    ELSE BestCandidate(Tail(cands),
                       IF Head(cands).score > best.score THEN Head(cands) ELSE best)

extract_title_from_pdf(spans) ==
    LET title_candidates == TitleCandidates(spans) IN
    IF title_candidates = <<>> THEN NoTok
    ELSE BestCandidate(Tail(title_candidates), Head(title_candidates)).text

InitTitle ==
    /\ pc = "start"
    /\ arg \in TitleSpanPages
    /\ ret = NoTok
    /\ AtRest

ExtractTitleFromPdf ==
    /\ pc = "start"
    /\ pc' = "done"
    /\ ret' = extract_title_from_pdf(arg)
    /\ UNCHANGED <<lines, fault, revisions, result, entries, latest, pdf_files,
                   results, arg>>

NextTitle == ExtractTitleFromPdf

SpecTitle == InitTitle /\ [][NextTitle]_vars

\* the same spans listed in another order
Relisted(spans, p) == [k \in 1..Len(spans) |-> spans[p[k]]]

\* C18: the candidate of the highest score is returned, and which candidate
\* is returned among those that share the highest score does not depend on
\* the order in which the spans are listed.
C18_BestScoreAnyOrder ==
    pc = "done" =>
        LET cands == TitleCandidates(arg) IN
        /\ cands # <<>> =>
              \E i \in 1..Len(cands) : /\ cands[i].text = ret
                                       /\ \A j \in 1..Len(cands) : cands[j].score <= cands[i].score
        /\ \A p \in Permutations(1..Len(arg)) :
              extract_title_from_pdf(Relisted(arg, p)) = ret


-----------------------------------------------------------------------------
(* extract_title_from_pdf of pdf_extractor_production_ready.py: the same
   search area, skips and score as the function above, with its own list of
   non_title_patterns *)

\* texts that are drawing numbers of the grammar: the standard form, the XX
\* placeholder form, the numeric-segment form
DrawingNumberTexts ==
    { "L01-H01D01-FOS-00-XX-MUP-AR-80050",
      "L02-R02DXX-RSG-00-ZZ-SKT-LS-12801",
      "L04-A04D02-CHP-16-00-DWG-SP-10001" }

ReadyTitleTexts == {"Pool Enlargement Plan", "General Notes"} \cup DrawingNumberTexts

ReadyTitleSpans == [text : ReadyTitleTexts, size : {8, 10, 12}, x0 : {0, 4}, y0 : {2, 5}]

ReadyTitleSpanPages == UNION { [1..n -> ReadyTitleSpans] : n \in 0..MaxTitleSpans }

\* some pattern of this variant's non_title_patterns is found in the text:
\* of the vocabulary only the full drawing number pattern
\* ^L\d{2}-[A-Z]\d{2}[A-Z]\d{2}-[A-Z]{3}-\d{2}-[A-Z]{2}-[A-Z]{3}-[A-Z]{2}-\d{5}$
\* matches, and only the standard form
IsNonTitleReady(text) == text = "L01-H01D01-FOS-00-XX-MUP-AR-80050"

IsTitleCandidateReady(span) ==
    /\ ~(span.y0 * 10 > page_height * 4)
    /\ ~(TitleTextLen(span.text) < 4 \/ span.size < 9)
    /\ ~IsNonTitleReady(span.text)

TitleCandidatesReady(spans) ==
    ConcatAll([i \in 1..Len(spans) |->
        IF IsTitleCandidateReady(spans[i])
        THEN << [text |-> spans[i].text, score |-> TitleScore(spans[i])] >>
        ELSE <<>>])

extract_title_from_pdf_production_ready(spans) ==
    LET title_candidates == TitleCandidatesReady(spans) IN
    IF title_candidates = <<>> THEN NoTok
    ELSE BestCandidate(Tail(title_candidates), Head(title_candidates)).text

InitTitleReady ==
    /\ pc = "start"
    /\ arg \in ReadyTitleSpanPages
    /\ ret = NoTok
    /\ AtRest

ExtractTitleReady ==
    /\ pc = "start"
    /\ pc' = "done"
    /\ ret' = extract_title_from_pdf_production_ready(arg)
    /\ UNCHANGED <<lines, fault, revisions, result, entries, latest, pdf_files,
                   results, arg>>

NextTitleReady == ExtractTitleReady

SpecTitleReady == InitTitleReady /\ [][NextTitleReady]_vars

\* C19: the title returned is never a span whose whole text is a drawing
\* number of the grammar, in the standard, the XX placeholder or the
\* numeric-segment form.
C19_NoDrawingNumberAsTitle ==
    pc = "done" => ret \notin DrawingNumberTexts


-----------------------------------------------------------------------------
(* extract_title_fixed on its own: pages of title-block labels *)

\* longest page of title-block lines
MaxTitleLines == 4

TitleBlockLines ==
    { <<"Drawing", "Title">>,
      <<"Pool", "Enlargement", "Plan">>,
      <<"Laheq", "Island">>,
      <<"Revision">>,
      <<"Drawn", "By">>,
      <<"Drawing", "Number", "Revision">>,
      <<"07">> }

TitleBlockPages == UNION { [1..n -> TitleBlockLines] : n \in 0..MaxTitleLines }

InitTitleFixed ==
    /\ pc = "start"
    /\ arg \in TitleBlockPages
    /\ ret = NoTok
    /\ AtRest

ExtractTitleFixed ==
    /\ pc = "start"
    /\ pc' = "done"
    /\ ret' = extract_title_fixed(arg)
    /\ UNCHANGED <<lines, fault, revisions, result, entries, latest, pdf_files,
                   results, arg>>

NextTitleFixed == ExtractTitleFixed

SpecTitleFixed == InitTitleFixed /\ [][NextTitleFixed]_vars

\* a line that holds a drawing number, drawn-by or revision label
HasBoundaryLabel(l) ==
    \/ HasPair(l, "Drawing", "Number")
    \/ HasPair(l, "Drawn", "By")
    \/ \E k \in 1..Len(l) : l[k] = "Revision"

\* the lines of the page whose numbers are in S, joined in page order
JoinedLines(S) == ConcatAll([j \in 1..Len(arg) |-> IF j \in S THEN arg[j] ELSE <<>>])

\* C20: a title of the label-anchored mode is made of lines that follow a
\* 'Drawing Title' line and come before the first boundary-label line after
\* it.
C20_StopsAtBoundaryLabel ==
    pc = "done" /\ TitleStrategy1(arg, 1) # <<>> =>
        \E i \in 1..Len(arg) :
            /\ HasPair(arg[i], "Drawing", "Title")
            /\ LET after == { b \in (i + 1)..Len(arg) : HasBoundaryLabel(arg[b]) }
                   stop == IF after = {} THEN Len(arg) + 1
                           ELSE CHOOSE b \in after : \A c \in after : b <= c
               IN  \E S \in SUBSET ((i + 1)..(stop - 1)) : ret = JoinedLines(S)
-----------------------------------------------------------------------------
\* extract_pdf_info_dynamic (pdf_extractor_dynamic.py): the revision table.
\* arg is the page text as a sequence of lines, ret the returned fields.

MaxDynLines == 4

DynHeader == <<"Rev", "Date", "Reason", "for", "Issue">>
DynWrap == <<"and", "Coordination">>
DynShortYear == <<"updated", "31/07/25">>
DynLabel == <<"Drawing", "Title">>
DynInitials == <<"AK", "approved">>
DynLong == <<"Development", "Construction", "Procurement", "Enlargement",
             "Coordination">>

DynLines == {Row0, Row1, DynHeader, DynWrap, DynShortYear, DynLabel,
             DynInitials, DynLong, <<>>}

DynPages == UNION {[1..n -> DynLines] : n \in 0..MaxDynLines}

\* if page_text: text += "\n--- PAGE n ---\n" + page_text;
\* lines = text.split('\n')
DynTextLines(page) ==
    IF page = <<>> THEN << <<>> >>
    ELSE << <<>>, <<"---", "PAGE", "1", "---">> >> \o page

\* [A-Z0-9]{1,3}, the whole token, case-sensitive
DynCodeTok == {"T0", "T1", "T2", "N0", "07", "27", "AK", "NQ", "FOR", "L02",
               "1"}
\* \d{1,2}/\d{1,2}/\d{2,4}, the date of the revision grammar
DateGrammarTok == Date4Tok \cup {"31/07/25"}

HasTok(l, S) == \E k \in 1..Len(l) : l[k] \in S

\* 'rev' in line_lower and 'date' in line_lower and ('reason' in line_lower
\* or 'issue' in line_lower): the tokens that hold each of the words
IsDynHeader(l) ==
    /\ HasTok(l, {"Rev", "Revision"})
    /\ HasTok(l, {"Date", "updated"})
    /\ HasTok(l, {"Reason"}) \/ HasTok(l, {"Issue", "ISSUED"})

NoDynMatch == [revision |-> NoTok, date |-> NoTok, reason |-> <<>>,
               checker |-> NoTok]

\* ^([A-Z0-9]{1,3})\s+(date)\s+(.+?)(?:\s+([A-Z]{1,3}))?$ under IGNORECASE:
\* the code may be in lower case, the checker is one to three letters
DynMatch(l) ==
    IF /\ Len(l) >= 3
       /\ l[1] \in DynCodeTok \cup {"Rev", "for", "and"}
       /\ l[2] \in Date4Tok
    THEN LET rest == SubSeq(l, 3, Len(l))
             hasChk == /\ Len(rest) >= 2
                       /\ rest[Len(rest)] \in {"AK", "NQ", "FOR", "Rev", "for", "and"}
         IN  [revision |-> l[1], date |-> l[2],
              reason |-> IF hasChk THEN SubSeq(rest, 1, Len(rest) - 1)
                         ELSE rest,
              checker |-> IF hasChk THEN rest[Len(rest)] ELSE NoTok]
    ELSE NoDynMatch

IsDynEntry(l) == DynMatch(l) # NoDynMatch /\ StrLen(DynMatch(l).reason) > 2

StopsContinuation(l) ==
    \/ Len(l) >= 2 /\ l[1] \in DynCodeTok /\ l[2] \in Date4Tok
    \/ HasTok(l, {"Rev", "Revision"})
    \/ l = <<>>

IsContinuation(l) ==
    /\ StrLen(l) < 50
    /\ ~HasTok(l, Date4Tok)
    /\ ~(Len(l) >= 2 /\ l[1] \in DynCodeTok)
    /\ StrLen(l) > 2
    /\ ~HasTok(l, {"Drawing"})

\* the positions (1-based) of the lines appended to the entry at position j:
\* for k in range(j + 1, min(len(lines), j + 5)), until the first break
RECURSIVE ContinuationFrom(_, _, _)
ContinuationFrom(ls, k, last) ==
    IF k > last \/ StopsContinuation(ls[k]) THEN {}
    ELSE (IF IsContinuation(ls[k]) THEN {k} ELSE {})
         \cup ContinuationFrom(ls, k + 1, last)

JoinAt(ls, S) == ConcatAll([k \in 1..Len(ls) |-> IF k \in S THEN ls[k] ELSE <<>>])

\* the entry appended for the line at position j; line_number is 0-based
DynEntryAt(ls, j) ==
    [revision |-> DynMatch(ls[j]).revision,
     date |-> DynMatch(ls[j]).date,
     reason |-> DynMatch(ls[j]).reason
                \o JoinAt(ls, ContinuationFrom(ls, j + 1, Min(Len(ls), j + 4))),
     checker |-> DynMatch(ls[j]).checker,
     line_number |-> j - 1]

\* entries of the lines range(max(0, i - 20), i) before the first header i
revision_table_entries(ls) ==
    LET headers == {i \in 1..Len(ls) : IsDynHeader(ls[i])} IN
    IF headers = {} THEN <<>>
    ELSE LET i == CHOOSE h \in headers : \A g \in headers : h <= g
             from == Max(1, i - 20)
         IN  SelectSeq([n \in 1..(i - from) |->
                           IF IsDynEntry(ls[from + n - 1])
                           THEN DynEntryAt(ls, from + n - 1)
                           ELSE [revision |-> NoTok, date |-> NoTok,
                                 reason |-> <<>>, checker |-> NoTok,
                                 line_number |-> -1]],
                       LAMBDA e : e.line_number >= 0)

\* min(revision_table_entries, key=lambda x: x['line_number'])
latest_entry_Last(es) ==
    CHOOSE e \in {es[n] : n \in 1..Len(es)} :
        \A n \in 1..Len(es) : e.line_number >= es[n].line_number
latest_entry(es) ==
    CHOOSE e \in {es[n] : n \in 1..Len(es)} :
        \A n \in 1..Len(es) : e.line_number <= es[n].line_number

extract_pdf_info_dynamic(page) ==
    LET es == revision_table_entries(DynTextLines(page))
    IN  [entries |-> es,
         latest_revision |-> IF es # <<>> THEN latest_entry(es).revision
                             ELSE NoTok,
         latest_date |-> IF es # <<>> THEN latest_entry(es).date ELSE NoTok,
         latest_reason |-> IF es # <<>> THEN latest_entry(es).reason
                           ELSE <<>>]

InitDynamic ==
    /\ pc = "start"
    /\ arg \in DynPages
    /\ ret = NoTok
    /\ AtRest

ExtractPdfInfoDynamic ==
    /\ pc = "start"
    /\ pc' = "done"
    /\ ret' = extract_pdf_info_dynamic(arg)
    /\ UNCHANGED <<lines, fault, revisions, result, entries, latest,
                   pdf_files, results, arg>>

NextDynamic == ExtractPdfInfoDynamic

SpecDynamic == InitDynamic /\ [][NextDynamic]_vars

\* what the continuation rule allows: shorter than the 50-character cap, no
\* date of the grammar, not the start of a CODE+DATE pair, no structural label
MayContinue(l) ==
    /\ StrLen(l) < 50
    /\ ~HasTok(l, DateGrammarTok)
    /\ ~(Len(l) >= 2 /\ l[1] \in DynCodeTok /\ l[2] \in DateGrammarTok)
    /\ ~HasTok(l, {"Drawing", "Rev", "Revision"})

\* C21: the reason of every entry is the reason parsed from the entry's own
\* line followed only by later lines that are shorter than the 50-character
\* cap, hold no day/month/year date with a 2- to 4-digit year, do not start a
\* new CODE+DATE pair and are not a structural label.
C21_ContinuationIsConservative ==
    pc = "done" =>
        \A n \in 1..Len(ret.entries) :
            LET ls == DynTextLines(arg)
                j == ret.entries[n].line_number + 1
            IN  \E S \in SUBSET {k \in (j + 1)..Len(ls) : MayContinue(ls[k])} :
                    ret.entries[n].reason = DynMatch(ls[j]).reason \o JoinAt(ls, S)

\* C22: when the table yields entries, the latest revision, date and reason
\* are those of the entry with the smallest line number.
C22_LatestIsFirstEntry ==
    (pc = "done" /\ ret.entries # <<>>) =>
        \E n \in 1..Len(ret.entries) :
            /\ \A m \in 1..Len(ret.entries) :
                   ret.entries[n].line_number <= ret.entries[m].line_number
            /\ ret.latest_revision = ret.entries[n].revision
            /\ ret.latest_date = ret.entries[n].date
            /\ ret.latest_reason = ret.entries[n].reason

C22_Witness ==
    /\ pc = "done"
    /\ Len(ret.entries) >= 2
    /\ ret.entries[1].revision = "T0"
    /\ ret.entries[2].revision = "T1"
    /\ ret.latest_revision = "T0"
-----------------------------------------------------------------------------
\* extract_revisions_comprehensive: the line_index of the entries

\* the text s occurs in the token t
OccursIn(s, t) ==
    \/ s = t
    \/ s = "07" /\ t \in {"07/11/2024", "EB0707/11/2024"}
    \/ s = "07/11/2024" /\ t = "EB0707/11/2024"

LineHolds(l, s) == \E k \in 1..Len(l) : OccursIn(s, l[k])

\* C23: the line_index of every returned entry is the index of a line that
\* contains both the entry's code and the entry's date.
C23_LineIndexIsSourceLine ==
    Returned =>
        \A k \in 1..Len(revisions) :
            /\ revisions[k].line_index + 1 \in 1..Len(lines)
            /\ LineHolds(lines[revisions[k].line_index + 1], revisions[k].revision)
            /\ LineHolds(lines[revisions[k].line_index + 1], revisions[k].date)
-----------------------------------------------------------------------------
\* C25: revision and latest_revision of the register record are non-empty
\* only when every validation passed, that is only when status is 'SUCCESS'.
C25_RevisionOnlyOnSuccess ==
    pc = "done" =>
        ((ret.revision # "" \/ ret.latest_revision # "") => ret.status = "SUCCESS")

-----------------------------------------------------------------------------
(* process_pdf_with_excel_record with the revision helpers computed from the
   spans of the first page: extract_revision_from_pdf_title_block and
   find_revision_in_history_table *)

MaxExcelSpans == 3

\* span["text"].strip() and span["bbox"]: x0 = bbox[0], y0 = bbox[1],
\* x1 = bbox[2], on a page 1000 wide and 1000 high
RevisionLabel == [text |-> "Revision", x0 |-> 700, y0 |-> 900, x1 |-> 760]
ExcelSpans ==
    {RevisionLabel,
     [text |-> "T1", x0 |-> 770, y0 |-> 900, x1 |-> 790],
     [text |-> "T0", x0 |-> 800, y0 |-> 910, x1 |-> 820],
     [text |-> "07", x0 |-> 770, y0 |-> 905, x1 |-> 790],
     [text |-> "AD", x0 |-> 765, y0 |-> 900, x1 |-> 785],
     [text |-> "XX", x0 |-> 765, y0 |-> 895, x1 |-> 785],
     [text |-> "T1", x0 |-> 650, y0 |-> 400, x1 |-> 670],
     [text |-> "T1 ISSUED FOR TENDER", x0 |-> 100, y0 |-> 100, x1 |-> 300],
     [text |-> "T0", x0 |-> 650, y0 |-> 920, x1 |-> 670]}

ExcelSpanPages == UNION {[1..n -> ExcelSpans] : n \in 0..MaxExcelSpans}

ExcelPageCases ==
    [document_number : {"L02-R02DXX-RSG-00-ZZ-SKT-LS-12801"},
     revision : ExcelRevisions, title : {"Pool Enlargement Plan"},
     number_in_pdf : BOOLEAN, title_in_pdf : BOOLEAN,
     spans : ExcelSpanPages, width : {1000}, height : {1000}]

AbsDiff(a, b) == IF a >= b THEN a - b ELSE b - a

\* ^[NT]\d+$, ^\d{2}$, ^[A-Z]{2}$ not in ['AD', 'SF', 'CG']
CandidateType(text) ==
    IF text \in {"T0", "T1"} THEN "NT"
    ELSE IF text = "07" THEN "numeric"
    ELSE IF text = "XX" THEN "alpha"
    ELSE "none"

\* min(cands, key=distance): the first of the nearest
NearestOf(sp, idx, revision_x) ==
    sp[CHOOSE k \in idx :
          \A m \in idx :
              \/ AbsDiff(sp[k].x0, revision_x) < AbsDiff(sp[m].x0, revision_x)
              \/ AbsDiff(sp[k].x0, revision_x) = AbsDiff(sp[m].x0, revision_x)
                 /\ k <= m].text

extract_revision_from_pdf_title_block(sp) ==
    \* "revision" in span['text'].lower()
    LET labels == {k \in 1..Len(sp) : sp[k].text = "Revision"} IN
    IF labels = {} THEN ""
    ELSE LET label == sp[CHOOSE k \in labels : \A m \in labels : k <= m]
             near(type) == {k \in 1..Len(sp) :
                               /\ AbsDiff(sp[k].y0, label.y0) <= 20
                               /\ CandidateType(sp[k].text) = type}
         IN  IF near("NT") # {} THEN NearestOf(sp, near("NT"), label.x1)
             ELSE IF near("numeric") # {}
                  THEN NearestOf(sp, near("numeric"), label.x1)
             ELSE IF near("alpha") # {}
                  THEN NearestOf(sp, near("alpha"), label.x1)
             ELSE ""

\* revision_to_find.upper() == text.upper(), or \bREVISION\b found in
\* text.upper()
RevisionInText(revision, text) ==
    \/ UpperRev(revision) = text
    \/ UpperRev(revision) = "T1" /\ text = "T1 ISSUED FOR TENDER"

find_revision_in_history_table(c, revision_to_find) ==
    /\ revision_to_find # ""
    /\ \/ \E k \in 1..Len(c.spans) :
              /\ c.spans[k].x0 * 10 >= c.width * 6
              /\ c.spans[k].y0 * 10 >= c.height * 3
              /\ RevisionInText(revision_to_find, c.spans[k].text)
       \/ \E k \in 1..Len(c.spans) :
              RevisionInText(revision_to_find, c.spans[k].text)

process_pdf_with_excel_record_on_page(c) ==
    process_pdf_with_excel_record(
        [document_number |-> c.document_number, revision |-> c.revision,
         title |-> c.title,
         pdf_revision |-> extract_revision_from_pdf_title_block(c.spans),
         revision_in_history |->
             find_revision_in_history_table(c, FormatRevision(c.revision)),
         number_in_pdf |-> c.number_in_pdf, title_in_pdf |-> c.title_in_pdf,
         opens |-> TRUE])

InitExcelPage ==
    /\ pc = "start"
    /\ arg \in ExcelPageCases
    /\ ret = NoTok
    /\ AtRest

ProcessPdfOnPage ==
    /\ pc = "start"
    /\ pc' = "done"
    /\ ret' = process_pdf_with_excel_record_on_page(arg)
    /\ UNCHANGED <<lines, fault, revisions, result, entries, latest, pdf_files,
                   results, arg>>

NextExcelPage == ProcessPdfOnPage

SpecExcelPage == InitExcelPage /\ [][NextExcelPage]_vars

\* the spans of the page in which the code occurs
OccurrencesOf(revision) ==
    {k \in 1..Len(arg.spans) : RevisionInText(revision, arg.spans[k].text)}

\* C24: when the register revision equals the title-block revision and the
\* code occurs on the page only as the title-block value, the record is
\* 'FAILED' with an empty latest_revision and the comment "The revision
\* doesn't match with latest revision number".
C24_TitleBlockAloneFails ==
    (/\ pc = "done"
     /\ arg.revision # ""
     /\ UpperRev(FormatRevision(arg.revision))
            = extract_revision_from_pdf_title_block(arg.spans)
     /\ Cardinality(OccurrencesOf(FormatRevision(arg.revision))) = 1)
    => /\ ret.status = "FAILED"
       /\ ret.latest_revision = ""
       /\ \E k \in 1..Len(ret.comments) :
              ret.comments[k] = "The revision doesn't match with latest revision number"
-----------------------------------------------------------------------------
(* extract_title_hybrid_dynamic (pdf_extractor_hybrid_dynamic.py): the three
   title methods and the validation of their results. arg is the list of
   stripped, non-empty lines of the page, ret the title. *)

MaxHybridLines == 4

HybridLabel == <<"Drawing", "Title">>
HybridLong == <<"Pool", "Enlargement", "Plan", "Development", "Construction",
                "Procurement", "Coordination">>

HybridLines ==
    {HybridLabel, HybridLong,
     <<"Pool", "Enlargement", "Plan">>,
     <<"POOL", "ENLARGEMENT", "PLAN">>,
     <<"12", "Pool", "Enlargement", "Plan">>,
     <<"Revision">>,
     <<"Mockup", "Wall">>,
     <<"Laheq", "Island">>}

HybridPages == UNION {[1..n -> HybridLines] : n \in 0..MaxHybridLines}

\* the title elements that occur in the upper-cased token
TitleElementsOf(t) ==
    IF t \in {"Pool", "POOL"} THEN {"POOL"}
    ELSE IF t \in {"Plan", "PLAN"} THEN {"PLAN"}
    ELSE IF t = "Mockup" THEN {"MOCKUP"}
    ELSE IF t = "Wall" THEN {"WALL"}
    ELSE {}

\* any(indicator in text_upper for indicator in title_indicators)
contains_title_like_content(l) ==
    \E k \in 1..Len(l) : TitleElementsOf(l[k]) # {}

\* sum(1 for element in title_elements if element in text_upper) >= 2
contains_multiple_title_elements(l) ==
    Cardinality(UNION {TitleElementsOf(l[k]) : k \in 1..Len(l)}) >= 2

\* any(pattern in text_upper for pattern in metadata_patterns): 'REVISION',
\* 'DRAWING NUMBER'
contains_metadata_patterns(l) ==
    \/ HasTok(l, {"Revision"})
    \/ HasPair(l, "Drawing", "Number")

\* re.sub(r'^[0-9]+\s+', '', line): one leading number dropped
clean_title_line(l) == IF Len(l) >= 2 /\ l[1] = "12" THEN Tail(l) ELSE l

is_valid_title_result(title) ==
    /\ title # <<>>
    /\ StrLen(title) >= 10
    /\ StrLen(title) <= 150
    /\ ~contains_metadata_patterns(title)
    /\ contains_title_like_content(title)

\* a line that ends the label method: one of the stop_patterns ('Revision',
\* 'Drawing Number') or of the exclusion patterns (^[0-9\.\s\-]+$)
HybridStops(l) ==
    \/ HasTok(l, {"Revision"})
    \/ HasPair(l, "Drawing", "Number")
    \/ l # <<>> /\ \A k \in 1..Len(l) : l[k] = "12"

\* ^[A-Z0-9\-\s\/]+$
AllCapsOrCodes(l) ==
    l # <<>> /\ \A k \in 1..Len(l) : l[k] \in {"POOL", "ENLARGEMENT", "PLAN", "12"}

\* the cleaned lines collected from position j (1-based) up to last
RECURSIVE LabelParts(_, _, _)
LabelParts(ls, j, last) ==
    IF j > last \/ HybridStops(ls[j]) THEN <<>>
    ELSE (IF /\ StrLen(ls[j]) > 8
             /\ StrLen(ls[j]) < 80
             /\ ~AllCapsOrCodes(ls[j])
             /\ contains_title_like_content(ls[j])
             /\ StrLen(clean_title_line(ls[j])) > 5
          THEN clean_title_line(ls[j]) ELSE <<>>)
         \o LabelParts(ls, j + 1, last)

\* the parts found at the first 'Drawing Title' line that has any
extract_title_from_label(ls) ==
    LET found == {i \in 1..Len(ls) :
                     /\ HasPair(ls[i], "Drawing", "Title")
                     /\ LabelParts(ls, i + 1, Min(Len(ls), i + 14)) # <<>>}
    IN  IF found = {} THEN <<>>
        ELSE LET i == CHOOSE a \in found : \A b \in found : a <= b
             IN  LabelParts(ls, i + 1, Min(Len(ls), i + 14))

\* the lines that follow a 'Mockup' line, as a sequence of lines
RECURSIVE ContentParts(_, _, _)
ContentParts(ls, j, last) ==
    IF j > last \/ HasPair(ls[j], "Drawing", "Number") THEN <<>>
    ELSE (IF /\ StrLen(ls[j]) > 3
             /\ StrLen(ls[j]) < 60
             /\ ~AllCapsOrCodes(ls[j])
             /\ contains_title_like_content(ls[j])
          THEN <<ls[j]>> ELSE <<>>)
         \o ContentParts(ls, j + 1, last)

extract_title_content_based(ls) ==
    LET found == {i \in 1..Len(ls) :
                     /\ HasTok(ls[i], {"Mockup"})
                     /\ ContentParts(ls, i + 1, Min(Len(ls), i + 5)) # <<>>}
    IN  IF found = {} THEN <<>>
        ELSE LET i == CHOOSE a \in found : \A b \in found : a <= b
             IN  ls[i] \o ConcatAll(ContentParts(ls, i + 1, Min(Len(ls), i + 5)))

extract_title_single_line(ls) ==
    LET found == {i \in 1..Min(Len(ls), 150) :
                     /\ StrLen(ls[i]) > 20
                     /\ StrLen(ls[i]) < 120
                     /\ contains_multiple_title_elements(ls[i])
                     /\ ~contains_metadata_patterns(ls[i])}
    IN  IF found = {} THEN <<>>
        ELSE ls[CHOOSE a \in found : \A b \in found : a <= b]

extract_title_hybrid_dynamic(ls) ==
    IF is_valid_title_result(extract_title_from_label(ls))
    THEN extract_title_from_label(ls)
    ELSE IF is_valid_title_result(extract_title_content_based(ls))
    THEN extract_title_content_based(ls)
    ELSE IF is_valid_title_result(extract_title_single_line(ls))
    THEN extract_title_single_line(ls)
    ELSE <<>>

InitHybrid ==
    /\ pc = "start"
    /\ arg \in HybridPages
    /\ ret = NoTok
    /\ AtRest

ExtractTitleHybridDynamic ==
    /\ pc = "start"
    /\ pc' = "done"
    /\ ret' = extract_title_hybrid_dynamic(arg)
    /\ UNCHANGED <<lines, fault, revisions, result, entries, latest, pdf_files,
                   results, arg>>

NextHybrid == ExtractTitleHybridDynamic

SpecHybrid == InitHybrid /\ [][NextHybrid]_vars

\* C26: a returned title, fed back as the single line after a 'Drawing
\* Title' label, is classified as title-like and is returned unchanged.
C26_TitleRoundTrip ==
    (pc = "done" /\ ret # <<>>) =>
        /\ is_valid_title_result(ret)
        /\ extract_title_hybrid_dynamic(<<HybridLabel, ret>>) = ret
-----------------------------------------------------------------------------
(* extract_revision_corrected (pdf_extractor_corrected_dynamic.py): the
   revision code of a page. arg is the page with its spans, ret the code. *)

MaxRevSpans == 3

RevSpanTexts == {"T1", "N0", "00", "07", "27", "t1", "Rev 07"}

\* span["text"].strip() with bbox[0], bbox[1]; a span of the title block
\* and a span outside it, on a page 1000 wide and 1000 high
RevSpans == [text : RevSpanTexts, x0 : {100, 700}, y0 : {800}]

RevPages == [spans : UNION {[1..n -> RevSpans] : n \in 0..MaxRevSpans},
             width : {1000}, height : {1000}]

\* the validated matches of the ten title-block patterns in a text, in the
\* order they are appended: re.findall under re.IGNORECASE, then
\* match.isdigit() and len(match) == 2 and match[0] == '0', or
\* match[0] in ['T', 'N']
TitleBlockMatches(text) ==
    CASE text = "T1" -> <<"T1">>
      [] text = "N0" -> <<"N0">>
      [] text = "00" -> <<"00">>
      [] text = "07" -> <<"07", "07">>
      [] text = "Rev 07" -> <<"07", "07", "07">>
      [] OTHER -> <<>>

\* the validated matches of the three page-wide patterns
PageWideMatches(text) ==
    CASE text = "T1" -> <<"T1">>
      [] text = "N0" -> <<"N0">>
      [] text = "00" -> <<"00">>
      [] text = "07" -> <<"07">>
      [] text = "Rev 07" -> <<"07">>
      [] OTHER -> <<>>

\* revisions_found after the title-block search and after the page search
revisions_found(page) ==
    LET inBlock == ConcatAll([k \in 1..Len(page.spans) |->
                      IF /\ page.spans[k].x0 * 10 >= page.width * 5
                         /\ page.spans[k].y0 * 10 >= page.height * 6
                      THEN TitleBlockMatches(page.spans[k].text) ELSE <<>>])
    IN  IF inBlock # <<>> THEN inBlock
        ELSE ConcatAll([k \in 1..Len(page.spans) |->
                           PageWideMatches(page.spans[k].text)])

\* the stable sort by confidence leaves the first match found in front
extract_revision_corrected(page) ==
    IF revisions_found(page) # <<>> THEN Head(revisions_found(page)) ELSE ""

InitRevCorrected ==
    /\ pc = "start"
    /\ arg \in RevPages
    /\ ret = NoTok
    /\ AtRest

ExtractRevisionCorrected ==
    /\ pc = "start"
    /\ pc' = "done"
    /\ ret' = extract_revision_corrected(arg)
    /\ UNCHANGED <<lines, fault, revisions, result, entries, latest, pdf_files,
                   results, arg>>

NextRevCorrected == ExtractRevisionCorrected

SpecRevCorrected == InitRevCorrected /\ [][NextRevCorrected]_vars

\* two-digit numeric codes
TwoDigitCodes == {"00", "07", "27"} \cup {"01", "02", "03", "04", "05", "06", "08", "09"}

\* C27: a numeric code returned by extract_revision_corrected is one of 01
\* to 09, never '00' and never a code beginning with 1-9.
C27_NumericIs01To09 ==
    (pc = "done" /\ ret \in TwoDigitCodes) =>
        ret \in {"01", "02", "03", "04", "05", "06", "07", "08", "09"}
-----------------------------------------------------------------------------
\* find_latest_revision_enhanced across families

HasFamily(es, prefix) ==
    \E k \in 1..Len(es) :
        IF prefix = "" THEN es[k].revision \in Num2Tok
        ELSE RevPrefix(es[k].revision) = prefix

\* C28: among entries of different families the family alone decides: a
\* two-digit numeric entry is returned if there is one, otherwise a T entry
\* if there is one, otherwise an N entry.
C28_FamilyDecides ==
    (pc = "done" /\ entries # <<>> /\ ~OneFamily(entries)) =>
        /\ \E k \in 1..Len(entries) : entries[k] = latest
        /\ HasFamily(entries, "") => latest.revision \in Num2Tok
        /\ (~HasFamily(entries, "") /\ HasFamily(entries, "T")) =>
               RevPrefix(latest.revision) = "T"

\* entries [N0 at line 5, T0 at line 20, N0 at line 20] give the T0 entry
C28_Witness ==
    /\ pc = "done"
    /\ Len(entries) = 3
    /\ entries[1].revision = "N0" /\ entries[1].line_index = 5
    /\ entries[2].revision = "T0" /\ entries[2].line_index = 20
    /\ entries[3].revision = "N0" /\ entries[3].line_index = 20
    /\ latest = entries[2]
-----------------------------------------------------------------------------
(* find_latest_revision_fixed (pdf_extractor_fixed_final.py). arg is the list
   of entries, ret what the call does: the entry returned, or raised *)

FixedCodes == {"T", "T1", "T2", "TA", "N0"}

\* entries that is_valid_revision_entry accepts: len(rev) <= 3, '/' in date,
\* len(reason) > 3 with none of the excluded words
FixedEntries ==
    [revision : FixedCodes, date : {"26/10/2023"},
     reason : {<<"ISSUED", "FOR", "TENDER">>}, line_index : {5, 20}]

FixedHistories == UNION {[1..n -> FixedEntries] : n \in 0..MaxEntries}

is_valid_revision_entry(rev, date, reason) ==
    /\ TokLen(rev) <= 3
    /\ date \in DateTok
    /\ StrLen(reason) > 3
    /\ ~HasTok(reason, {"PROJECT", "SCALE", "DRAWN", "MODEL"})

\* revision_sort_key: (prefix, int(suffix), line_idx), or
\* (prefix, suffix, line_idx) when int() raises ValueError, or
\* (rev_str, 0, line_idx) for a code of one character
fixed_sort_key(e) ==
    [prefix |-> IF e.revision = "N0" THEN "N" ELSE "T",
     numeric |-> e.revision \in {"T", "T1", "T2", "N0"},
     number |-> IF e.revision = "T1" THEN 1
                ELSE IF e.revision = "T2" THEN 2 ELSE 0,
     line_idx |-> e.line_index]

\* a < b of two keys raises TypeError: equal prefixes, an int against a str
Incomparable(a, b) == a.prefix = b.prefix /\ a.numeric # b.numeric

\* a <= b of two comparable keys; two str suffixes are both 'A'
FixedKeyLeq(a, b) ==
    \/ PrefixRank(a.prefix) < PrefixRank(b.prefix)
    \/ /\ a.prefix = b.prefix
       /\ \/ a.number < b.number
          \/ a.number = b.number /\ a.line_idx <= b.line_idx

NoFixedEntry == [revision |-> NoTok]

find_latest_revision_fixed(revs) ==
    LET unique == Unique(<<>>, revs)
        idx == 1..Len(unique)
    IN  IF revs = <<>> THEN [raised |-> FALSE, value |-> NoFixedEntry]
        ELSE IF \E a, b \in idx :
                    Incomparable(fixed_sort_key(unique[a]), fixed_sort_key(unique[b]))
        THEN [raised |-> TRUE, value |-> NoFixedEntry]
        ELSE [raised |-> FALSE,
              value |-> unique[CHOOSE a \in idx : \A b \in idx :
                            /\ FixedKeyLeq(fixed_sort_key(unique[b]),
                                           fixed_sort_key(unique[a]))
                            /\ (FixedKeyLeq(fixed_sort_key(unique[a]),
                                            fixed_sort_key(unique[b])) => b <= a)]]

InitFixed ==
    /\ pc = "start"
    /\ arg \in FixedHistories
    /\ ret = NoTok
    /\ AtRest

FindLatestRevisionFixed ==
    /\ pc = "start"
    /\ pc' = "done"
    /\ ret' = find_latest_revision_fixed(arg)
    /\ UNCHANGED <<lines, fault, revisions, result, entries, latest, pdf_files,
                   results, arg>>

NextFixed == FindLatestRevisionFixed

SpecFixed == InitFixed /\ [][NextFixed]_vars

\* C29: for every non-empty list of entries that is_valid_revision_entry
\* accepts, find_latest_revision_fixed does not raise and returns one of the
\* entries of the list.
C29_ReturnsAnInputEntry ==
    (/\ pc = "done"
     /\ arg # <<>>
     /\ \A k \in 1..Len(arg) :
            is_valid_revision_entry(arg[k].revision, arg[k].date, arg[k].reason))
    => /\ ~ret.raised
       /\ \E k \in 1..Len(arg) : arg[k] = ret.value
-----------------------------------------------------------------------------
\* process_single_pdf (truly-dynamic variant): the latest revision

\* every status validate_extraction_result gives for two different codes
AllMismatchStatuses == MismatchStatuses \cup {"FAILED - Revision mismatch"}

=============================================================================
